---- MODULE Spec2Model ----
(***************************************************************************)
(* The weighted pick generator of the Powerball picker (src/src/App.jsx):  *)
(* clampInt, clampNumber, the frequency tables (analysis, mainBaseWeights, *)
(* pbBaseWeights), pickOneBlended and generatePicks.                       *)
(*                                                                         *)
(* JavaScript numbers are modelled as exact rationals (no rounding); the   *)
(* values a caller can pass where a number is expected are modelled as     *)
(* tagged values ("num", "nan", "inf", "ninf", "text", "null", "undef").   *)
(* Math.random() reads the next value of an entropy stream chosen in the   *)
(* initial state.                                                          *)
(***************************************************************************)
EXTENDS Integers, Sequences, FiniteSets, TLC

\* ------------------------------------------------------------------------
\* Program constants
\* ------------------------------------------------------------------------
MainMax == 69
PbMax == 26
MainCount == 5
MaxLocked == 5
CountMin == 1
CountMax == 50
PctMin == 0
PctMax == 100
PctScale == 100

\* ------------------------------------------------------------------------
\* Bounds of the model
\* ------------------------------------------------------------------------
\* longest draw history explored
MaxDraws == 2
\* length of the entropy stream (read cyclically)
EntropyLen == 2
\* longest candidate list handed to pickOneBlended on its own
MaxCand == 3

\* ------------------------------------------------------------------------
\* Exact rationals: <<n, d>> with d > 0, in lowest terms
\* ------------------------------------------------------------------------
Abs(x) == IF x < 0 THEN 0 - x ELSE x

RECURSIVE Gcd(_, _)
Gcd(a, b) == IF b = 0 THEN a ELSE Gcd(b, a % b)

Rat(n, d) ==
    LET g == Gcd(Abs(n), Abs(d))
        s == IF d < 0 THEN 0 - 1 ELSE 1
    IN  <<(s * n) \div g, (s * d) \div g>>

Lcm(a, b) == (a \div Gcd(a, b)) * b

RZero == <<0, 1>>
ROne == <<1, 1>>
RInt(k) == <<k, 1>>

RAdd(x, y) ==
    LET l == Lcm(x[2], y[2])
    IN  Rat(x[1] * (l \div x[2]) + y[1] * (l \div y[2]), l)

RSub(x, y) == RAdd(x, <<0 - y[1], y[2]>>)

RMul(x, y) ==
    LET a == Rat(x[1], y[2])
        b == Rat(y[1], x[2])
    IN  <<a[1] * b[1], a[2] * b[2]>>

\* x / y, for y # 0
RDiv(x, y) == RMul(x, Rat(y[2], y[1]))

RLe(x, y) ==
    LET l == Lcm(x[2], y[2])
    IN  x[1] * (l \div x[2]) <= y[1] * (l \div y[2])

RLt(x, y) == RLe(x, y) /\ x # y

RMax(x, y) == IF RLe(x, y) THEN y ELSE x
RMin(x, y) == IF RLe(x, y) THEN x ELSE y

\* truncation toward zero of a rational
RTrunc(x) == IF x[1] >= 0 THEN x[1] \div x[2] ELSE 0 - ((0 - x[1]) \div x[2])

\* ------------------------------------------------------------------------
\* JavaScript values that reach the numeric parameters
\* ------------------------------------------------------------------------
Num(x) == [t |-> "num", v |-> x]
NaN == [t |-> "nan", v |-> RZero]
Infinity == [t |-> "inf", v |-> RZero]
NegInfinity == [t |-> "ninf", v |-> RZero]
\* a string that does not start with a number, such as "abc" or ""
Text == [t |-> "text", v |-> RZero]
Null == [t |-> "null", v |-> RZero]
Undefined == [t |-> "undef", v |-> RZero]

\* Number.parseInt(value, 10): the integer the value's text starts with.
\* A finite number prints as its decimal expansion (the magnitudes explored
\* stay clear of exponent notation), so the result is its truncation;
\* NaN, the infinities, null, undefined and non-numeric text give NaN.
ParseInt(value) ==
    IF value.t = "num" THEN Num(RInt(RTrunc(value.v))) ELSE NaN

\* Number(value): null converts to 0; undefined and non-numeric text to NaN.
ToNumber(value) ==
    CASE value.t = "num" -> value
      [] value.t = "null" -> Num(RZero)
      [] value.t \in {"inf", "ninf"} -> value
      [] OTHER -> NaN

IsFinite(value) == value.t = "num"

\* clampInt(value, min, max): an integer of min..max
clampInt(value, min, max) ==
    LET n == ParseInt(value)
    IN  IF n.t = "nan" THEN min
        ELSE LET k == n.v[1]
                 lo == IF max < k THEN max ELSE k
             IN  IF min > lo THEN min ELSE lo

\* clampNumber without its upper limit
clampNumberNoMax(value, min, max) ==
    LET n == ToNumber(value)
    IN  IF ~IsFinite(n) THEN RInt(min) ELSE RMax(RInt(min), n.v)

\* clampNumber(value, min, max): a rational of [min, max]
clampNumber(value, min, max) ==
    LET n == ToNumber(value)
    IN  IF ~IsFinite(n) THEN RInt(min)
        ELSE RMax(RInt(min), RMin(RInt(max), n.v))

\* ------------------------------------------------------------------------
\* Frequency tables
\* ------------------------------------------------------------------------
Range(s) == {s[k] : k \in DOMAIN s}

RECURSIVE CountIn(_, _)
\* occurrences of n in the sequence s
CountIn(s, n) ==
    IF s = <<>> THEN 0
    ELSE (IF Head(s) = n THEN 1 ELSE 0) + CountIn(Tail(s), n)

RECURSIVE MainFreqOf(_, _)
\* draws.forEach(draw => draw.main.forEach(n => mainFreq[n] += 1)), for key n
MainFreqOf(ds, n) ==
    IF ds = <<>> THEN 0
    ELSE CountIn(Head(ds).main, n) + MainFreqOf(Tail(ds), n)

RECURSIVE PbFreqOf(_, _)
\* if (Number.isFinite(pb)) pbFreq[pb] += 1, for key n
PbFreqOf(ds, n) ==
    IF ds = <<>> THEN 0
    ELSE (IF IsFinite(Head(ds).powerball) /\ Head(ds).powerball.v = RInt(n)
          THEN 1 ELSE 0) + PbFreqOf(Tail(ds), n)

MainKeys(ds) == UNION {Range(ds[k].main) : k \in DOMAIN ds}
PbKeys(ds) ==
    {ds[k].powerball.v[1] : k \in {j \in DOMAIN ds : IsFinite(ds[j].powerball)}}

\* analysis: only the numbers seen in the history are keys
analysis(ds) ==
    [mainFreq |-> [n \in MainKeys(ds) |-> MainFreqOf(ds, n)],
     pbFreq |-> [n \in PbKeys(ds) |-> PbFreqOf(ds, n)]]

\* freq[n] || 0
FreqOr0(freq, n) == IF n \in DOMAIN freq THEN freq[n] ELSE 0

\* the +1 is left out
SmoothingNone(c) == c

Smoothing(c) == c + 1

mainBaseWeights(ds) ==
    LET a == analysis(ds)
    IN  [n \in 1..MainMax |-> Smoothing(FreqOr0(a.mainFreq, n))]

pbBaseWeights(ds) ==
    LET a == analysis(ds)
    IN  [n \in 1..PbMax |-> Smoothing(FreqOr0(a.pbFreq, n))]

\* ------------------------------------------------------------------------
\* Array lookups
\* ------------------------------------------------------------------------
Includes(s, v) == \E k \in DOMAIN s : s[k] = v

\* array.indexOf(v), 0-based; -1 when absent
IndexOf(s, v) ==
    IF Includes(s, v)
    THEN (CHOOSE k \in DOMAIN s : s[k] = v /\ \A j \in 1..(k - 1) : s[j] # v) - 1
    ELSE 0 - 1

\* ------------------------------------------------------------------------
\* pickOneBlended
\* ------------------------------------------------------------------------
\* what indexing past the end of an array gives (JavaScript's undefined),
\* as an integer outside every candidate domain
NoValue == 0 - 1

\* baseWeights.get(n) || dflt : an absent key and a weight of 0 both give dflt
GetOr(baseWeights, n, dflt) ==
    IF n \in DOMAIN baseWeights /\ baseWeights[n] # 0 THEN baseWeights[n] ELSE dflt

RECURSIVE SumWeights(_, _, _)
\* for (const n of availableNums) sumW += baseWeights.get(n) || 0, from index k on
SumWeights(availableNums, baseWeights, k) ==
    IF k > Len(availableNums) THEN 0
    ELSE GetOr(baseWeights, availableNums[k], 0)
         + SumWeights(availableNums, baseWeights, k + 1)

\* if (sumW <= 0) sumW = availableNums.length
SumW(availableNums, baseWeights) ==
    LET s == SumWeights(availableNums, baseWeights, 1)
    IN  IF s <= 0 THEN Len(availableNums) ELSE s

\* The loop keeps every quantity as its numerator over the common denominator
\* D = a[2] * sumW * availableNums.length  (a = a[1]/a[2], sumW > 0), so that the
\* arithmetic is exact:
\*   uniformP  = 1 / length        = (a[2] * sumW) / D
\*   weightedP = w / sumW          = (w * a[2] * length) / D
\*   p = (1 - a) * weightedP + a * uniformP
\*                                 = ((a[2] - a[1]) * w * length + a[1] * sumW) / D
Denominator(availableNums, a, sumW) == a[2] * sumW * Len(availableNums)

\* alpha taken as the share of the weighted part
BlendedPSwapped(availableNums, baseWeights, a, sumW, n) ==
    LET w == GetOr(baseWeights, n, 1)
    IN  a[1] * w * Len(availableNums) + (a[2] - a[1]) * sumW

\* numerator of p over D, for candidate n
BlendedP(availableNums, baseWeights, a, sumW, n) ==
    LET w == GetOr(baseWeights, n, 1)
    IN  (a[2] - a[1]) * w * Len(availableNums) + a[1] * sumW

\* the comparison is strict
HitStrict(r, cumNum, den) == r[1] * den < cumNum * r[2]

\* if (r <= cumulative) return n      (cumulative = cumNum / den, r = r[1]/r[2])
Hit(r, cumNum, den) == r[1] * den <= cumNum * r[2]

RECURSIVE Walk(_, _, _, _, _, _, _)
\* the loop over availableNums from index k on, and the fallback after it
Walk(availableNums, baseWeights, a, sumW, r, k, cumulative) ==
    IF k > Len(availableNums) THEN availableNums[Len(availableNums)]
    ELSE LET n == availableNums[k]
             c == cumulative + BlendedP(availableNums, baseWeights, a, sumW, n)
         IN  IF Hit(r, c, Denominator(availableNums, a, sumW)) THEN n
             ELSE Walk(availableNums, baseWeights, a, sumW, r, k + 1, c)

\* the loop variable is the index (for ... in), not the element
pickOneBlendedIndex(availableNums, baseWeights, alpha, r) ==
    IF Len(availableNums) = 0 THEN NoValue
    ELSE IndexOf(availableNums,
                 Walk(availableNums, baseWeights, clampNumber(alpha, 0, 1),
                      SumW(availableNums, baseWeights), r, 1, 0))

\* pickOneBlended(availableNums, baseWeights, alpha) with Math.random() = r;
\* on an empty list the loop does nothing and availableNums[-1] is returned
pickOneBlended(availableNums, baseWeights, alpha, r) ==
    IF Len(availableNums) = 0 THEN NoValue
    ELSE Walk(availableNums, baseWeights, clampNumber(alpha, 0, 1),
              SumW(availableNums, baseWeights), r, 1, 0)

\* ------------------------------------------------------------------------
\* Array helpers of generatePicks
\* ------------------------------------------------------------------------
\* an array argument, or null/undefined in its place
Arr(s) == [t |-> "arr", v |-> s]
NullArr == [t |-> "null", v |-> <<>>]

\* (array || [])
OrEmpty(a) == IF a.t = "arr" THEN a.v ELSE <<>>

\* the array is not truncated
Slice0Whole(s, n) == s

\* array.slice(0, n)
Slice0(s, n) == IF Len(s) <= n THEN s ELSE SubSeq(s, 1, n)

\* array.splice(idx, 1): a negative idx counts from the end
Splice1(s, idx) ==
    LET start == IF idx < 0
                 THEN (IF Len(s) + idx < 0 THEN 0 ELSE Len(s) + idx)
                 ELSE (IF idx > Len(s) THEN Len(s) ELSE idx)
    IN  IF start >= Len(s) THEN s
        ELSE SubSeq(s, 1, start) \o SubSeq(s, start + 2, Len(s))

RECURSIVE InsertAsc(_, _)
InsertAsc(s, v) ==
    IF s = <<>> THEN <<v>>
    ELSE IF v < Head(s) THEN <<v>> \o s
    ELSE <<Head(s)>> \o InsertAsc(Tail(s), v)

RECURSIVE SortAsc(_)
\* array.sort((a, b) => a - b)
SortAsc(s) == IF s = <<>> THEN <<>> ELSE InsertAsc(SortAsc(Tail(s)), Head(s))

\* the sort is left out
SortAscNone(s) == s

\* for (let n = 1; n <= max; n++) array.push(n)
FullDomain(max) == [n \in 1..max |-> n]

\* the locked numbers are not placed
SeedForcedSkipped(lockedMain, k, main, availableMain) == <<main, availableMain>>

RECURSIVE SeedForced(_, _, _, _)
\* for (const forced of lockedMain) { if (!main.includes(forced)) { ... } },
\* from index k on; gives the pair <<main, availableMain>>
SeedForced(lockedMain, k, main, availableMain) ==
    IF k > Len(lockedMain) THEN <<main, availableMain>>
    ELSE LET forced == lockedMain[k]
         IN  IF ~Includes(main, forced)
             THEN LET idx == IndexOf(availableMain, forced)
                  IN  SeedForced(lockedMain, k + 1, Append(main, forced),
                                 IF idx # 0 - 1 THEN Splice1(availableMain, idx)
                                 ELSE availableMain)
             ELSE SeedForced(lockedMain, k + 1, main, availableMain)

\* the selected number stays in the pool
RemoveSelectedKept(availableMain, selected) == availableMain

\* availableMain.splice(availableMain.indexOf(selected), 1)
RemoveSelected(availableMain, selected) ==
    Splice1(availableMain, IndexOf(availableMain, selected))

\* a single locked powerball is not enough to use the locked set
HasCandidatesTwo(powerballCandidates) == Len(powerballCandidates) > 1

\* powerballCandidates.length > 0
HasCandidates(powerballCandidates) == Len(powerballCandidates) > 0

\* the left side of ?? is null or undefined
IsNullish(v) == v = NoValue

\* What a call leaves in the objects it receives by reference.
\* slice(0, 5) builds a new array; the array it is called on keeps its elements
AfterSlice(a) == a

\* the selected candidate is taken out of the list it was picked from
AfterPickListSpliced(availableNums, selected) ==
    Splice1(availableNums, IndexOf(availableNums, selected))

\* pickOneBlended reads availableNums (length, for...of, index) and writes
\* nothing to it
AfterPickList(availableNums, selected) == availableNums

\* pickOneBlended only calls baseWeights.get
AfterPickWeights(baseWeights, selected) == baseWeights

\* powerballCandidates = pbLockedNums || [] is the caller's array itself (no
\* copy) unless the argument is null: what the caller's array holds once the
\* local name holds content
Aliased(arg, content) == IF arg.t = "arr" THEN Arr(content) ELSE arg

\* ------------------------------------------------------------------------
\* State
\* ------------------------------------------------------------------------
VARIABLES
    draws,                     \* the draw history the tables were built from
    mainWeights,               \* mainBaseWeights (memoised)
    pbWeights,                 \* pbBaseWeights (memoised)
    count,                     \* generatePicks' arguments
    randomnessPct,
    lockedMainNums,
    pbLockedNums,
    safeCount,                 \* generatePicks' locals
    alpha,
    lockedMain,
    powerballCandidates,
    i,
    lockedPowerballCandidate,
    availableMain,
    main,
    picks,
    pc,                        \* position in generatePicks
    entropy,                   \* the values Math.random() returns, in order
    consumed,                  \* how many of them have been returned
    unit                       \* one application of a pure function

genArgs == <<count, randomnessPct, lockedMainNums, pbLockedNums>>
genLocals == <<safeCount, alpha, lockedMain, powerballCandidates, i,
               lockedPowerballCandidate, availableMain, main, picks, pc>>
tables == <<draws, mainWeights, pbWeights>>
rng == <<entropy, consumed>>
vars == <<tables, genArgs, genLocals, rng, unit>>

\* Math.random(): the next value of the stream
MathRandom == entropy[(consumed % Len(entropy)) + 1]

\* ------------------------------------------------------------------------
\* generatePicks, one action per step
\* ------------------------------------------------------------------------
\* const safeCount = ...; const alpha = ...; const picks = [];
\* const lockedMain = ...; const powerballCandidates = ...; i = 0
GenEnter ==
    /\ pc = "call"
    /\ safeCount' = clampInt(count, CountMin, CountMax)
    /\ alpha' = RDiv(clampNumber(randomnessPct, PctMin, PctMax), RInt(PctScale))
    /\ picks' = <<>>
    /\ lockedMain' = Slice0(OrEmpty(lockedMainNums), MaxLocked)
    /\ powerballCandidates' = OrEmpty(pbLockedNums)
    /\ i' = 0
    /\ lockedMainNums' = AfterSlice(lockedMainNums)
    /\ pc' = "line"
    /\ UNCHANGED <<tables, count, randomnessPct, pbLockedNums, rng, unit,
                   lockedPowerballCandidate, availableMain, main>>

\* loop head, i < safeCount: const lockedPowerballCandidate = ... ? ... : null
LockPowerball ==
    /\ pc = "line"
    /\ i < safeCount
    /\ \/ /\ HasCandidates(powerballCandidates)
          /\ LET selected == pickOneBlended(powerballCandidates, pbWeights,
                                            Num(alpha), MathRandom)
                 left == AfterPickList(powerballCandidates, selected)
             IN  /\ lockedPowerballCandidate' = selected
                 /\ powerballCandidates' = left
                 /\ pbLockedNums' = Aliased(pbLockedNums, left)
                 /\ pbWeights' = AfterPickWeights(pbWeights, selected)
          /\ consumed' = consumed + 1
       \/ /\ ~HasCandidates(powerballCandidates)
          /\ lockedPowerballCandidate' = NoValue
          /\ consumed' = consumed
          /\ UNCHANGED <<powerballCandidates, pbLockedNums, pbWeights>>
    /\ pc' = "seed"
    /\ UNCHANGED <<draws, mainWeights, count, randomnessPct, lockedMainNums,
                   entropy, unit, safeCount, alpha, lockedMain, i, availableMain,
                   main, picks>>

\* availableMain = [1..69]; main = []; the loop over lockedMain
SeedLocked ==
    /\ pc = "seed"
    /\ LET seeded == SeedForced(lockedMain, 1, <<>>, FullDomain(MainMax))
       IN  /\ main' = seeded[1]
           /\ availableMain' = seeded[2]
    /\ pc' = "fill"
    /\ UNCHANGED <<tables, genArgs, rng, unit, safeCount, alpha, lockedMain,
                   powerballCandidates, i, lockedPowerballCandidate, picks>>

\* while (main.length < 5) { selected = pickOneBlended(...); push; splice }
FillMain ==
    /\ pc = "fill"
    /\ Len(main) < MainCount
    /\ LET selected == pickOneBlended(availableMain, mainWeights, Num(alpha), MathRandom)
       IN  /\ main' = Append(main, selected)
           /\ availableMain' = RemoveSelected(AfterPickList(availableMain, selected),
                                              selected)
           /\ mainWeights' = AfterPickWeights(mainWeights, selected)
    /\ consumed' = consumed + 1
    /\ UNCHANGED <<draws, pbWeights, genArgs, entropy, unit, safeCount, alpha,
                   lockedMain, powerballCandidates, i, lockedPowerballCandidate,
                   picks, pc>>

\* the while loop is left: powerball = lockedPowerballCandidate ?? pickOneBlended(...);
\* picks.push({main: main.sort(...), powerball}); i++
PushPick ==
    /\ pc = "fill"
    /\ Len(main) >= MainCount
    /\ \/ /\ ~IsNullish(lockedPowerballCandidate)
          /\ picks' = Append(picks, [main |-> SortAsc(main),
                                     powerball |-> lockedPowerballCandidate])
          /\ consumed' = consumed
          /\ pbWeights' = pbWeights
       \/ /\ IsNullish(lockedPowerballCandidate)
          /\ LET powerball == pickOneBlended(FullDomain(PbMax), pbWeights,
                                             Num(alpha), MathRandom)
             IN  /\ picks' = Append(picks, [main |-> SortAsc(main),
                                            powerball |-> powerball])
                 /\ pbWeights' = AfterPickWeights(pbWeights, powerball)
          /\ consumed' = consumed + 1
    /\ main' = SortAsc(main)
    /\ i' = i + 1
    /\ pc' = "line"
    /\ UNCHANGED <<draws, mainWeights, genArgs, entropy, unit, safeCount, alpha,
                   lockedMain, powerballCandidates, lockedPowerballCandidate,
                   availableMain>>

\* loop head, i >= safeCount: return picks
GenReturn ==
    /\ pc = "line"
    /\ i >= safeCount
    /\ pc' = "done"
    /\ UNCHANGED <<tables, genArgs, rng, unit, safeCount, alpha, lockedMain,
                   powerballCandidates, i, lockedPowerballCandidate,
                   availableMain, main, picks>>

NextGen == GenEnter \/ LockPowerball \/ SeedLocked \/ FillMain \/ PushPick \/ GenReturn

\* ------------------------------------------------------------------------
\* Inputs explored
\* ------------------------------------------------------------------------
\* a draw as the history provider delivers it
Draw(m, pb) == [main |-> m, powerball |-> pb]

\* the first draws of the embedded history (rawData)
DrawA == Draw(<<11, 21, 27, 36, 62>>, Num(RInt(24)))
DrawB == Draw(<<14, 18, 36, 49, 67>>, Num(RInt(18)))
\* a draw sharing numbers with DrawA, and one whose powerball is not a number
DrawC == Draw(<<1, 11, 21, 68, 69>>, Num(RInt(24)))
DrawD == Draw(<<5, 18, 23, 40, 50>>, NaN)

CountInputs ==
    {Undefined, Text, Infinity, Num(RInt(0 - 3)), Num(RZero), Num(ROne),
     Num(RInt(2)), Num(Rat(7, 2)), Num(RInt(CountMax)), Num(RInt(CountMax + 1))}

PctInputs ==
    {NaN, Null, NegInfinity, Num(RInt(0 - 10)), Num(RZero), Num(Rat(25, 2)),
     Num(RInt(50)), Num(RInt(PctMax)), Num(RInt(250))}

LockedMainInputs ==
    {NullArr, Arr(<<>>), Arr(<<69>>), Arr(<<36, 3>>), Arr(<<5, 5, 9>>),
     Arr(<<10, 20, 30, 40, 50>>), Arr(<<6, 5, 4, 3, 2, 1>>),
     Arr(<<7, 7, 8, 9, 7, 11, 12>>), Arr(<<70, 3>>)}

PbLockedInputs ==
    {NullArr, Arr(<<>>), Arr(<<24>>), Arr(<<26, 1, 13>>), Arr(<<30>>)}

\* values Math.random() may return, all in [0, 1)
RandomValues == {RZero, Rat(1, 2), Rat(99, 100)}
EntropyStreams == [1..EntropyLen -> RandomValues]

\* the inputs of generatePicks that are explored: every count and percentage
\* with a few lock sets, and every lock set and entropy stream with small counts
GenInputs ==
    ([count : CountInputs, randomnessPct : PctInputs,
      lockedMainNums : {Arr(<<>>), Arr(<<36, 3>>)}, pbLockedNums : {Arr(<<>>)},
      draws : {<<DrawA, DrawC, DrawB>>},
      entropy : {[k \in 1..EntropyLen |-> Rat(1, 2)]}])
    \cup
    ([count : {Num(RInt(2))},
      randomnessPct : {Num(RZero), Num(Rat(25, 2)), Num(RInt(PctMax))},
      lockedMainNums : LockedMainInputs, pbLockedNums : PbLockedInputs,
      draws : {<<DrawA, DrawC, DrawB>>}, entropy : EntropyStreams])
    \cup
    ([count : {Num(ROne)}, randomnessPct : {Num(RZero)},
      lockedMainNums : {Arr(<<>>), Arr(<<36, 3>>)}, pbLockedNums : {Arr(<<>>)},
      draws : {<<>>, <<DrawD>>}, entropy : EntropyStreams])

UnitIdle == [fn |-> "none"]

InitGen ==
    /\ \E in \in GenInputs :
          /\ count = in.count
          /\ randomnessPct = in.randomnessPct
          /\ lockedMainNums = in.lockedMainNums
          /\ pbLockedNums = in.pbLockedNums
          /\ draws = in.draws
          /\ entropy = in.entropy
    /\ mainWeights = mainBaseWeights(draws)
    /\ pbWeights = pbBaseWeights(draws)
    /\ consumed = 0
    /\ safeCount = 0
    /\ alpha = RZero
    /\ lockedMain = <<>>
    /\ powerballCandidates = <<>>
    /\ i = 0
    /\ lockedPowerballCandidate = NoValue
    /\ availableMain = <<>>
    /\ main = <<>>
    /\ picks = <<>>
    /\ pc = "call"
    /\ unit = UnitIdle

SpecGen == InitGen /\ [][NextGen]_vars

\* ------------------------------------------------------------------------
\* Properties of generatePicks (SpecGen)
\* ------------------------------------------------------------------------
IsDistinct(s) == \A j, k \in DOMAIN s : j # k => s[j] # s[k]

\* a valid LockSet: at most 5 distinct main numbers of [1,69], powerballs of [1,26]
ValidLockSet ==
    /\ Len(OrEmpty(lockedMainNums)) <= MaxLocked
    /\ IsDistinct(OrEmpty(lockedMainNums))
    /\ Range(OrEmpty(lockedMainNums)) \subseteq 1..MainMax
    /\ Range(OrEmpty(pbLockedNums)) \subseteq 1..PbMax

\* 5 distinct main numbers of [1,69] in ascending order, a powerball of [1,26]
ValidPick(p) ==
    /\ Len(p.main) = MainCount
    /\ \A k \in DOMAIN p.main : p.main[k] \in 1..MainMax
    /\ \A k \in 1..(Len(p.main) - 1) : p.main[k] < p.main[k + 1]
    /\ p.powerball \in 1..PbMax

\* the entries of mainLocked that are honoured: its first 5
FirstLocked ==
    {OrEmpty(lockedMainNums)[k] : k \in DOMAIN OrEmpty(lockedMainNums) \cap 1..MaxLocked}

\* C1: for valid inputs generatePicks returns exactly the clamped count of picks,
\* each with 5 distinct ascending main numbers of [1,69] and a powerball of [1,26].
C1_PicksWellFormed ==
    ValidLockSet =>
        /\ \A k \in DOMAIN picks : ValidPick(picks[k])
        /\ pc # "call" => safeCount \in CountMin..CountMax
        /\ Len(picks) <= safeCount
        /\ pc = "done" => Len(picks) = safeCount

C1_Witness ==
    /\ pc = "done"
    /\ ValidLockSet
    /\ Len(picks) = CountMax
    /\ Len(OrEmpty(lockedMainNums)) = 2

\* C2: every pick contains every one of the first 5 entries of mainLocked.
C2_LockedMainPresent ==
    \A k \in DOMAIN picks : FirstLocked \subseteq Range(picks[k].main)

C2_Witness ==
    /\ pc = "done"
    /\ Len(picks) = 2
    /\ Cardinality(FirstLocked) = 3
    /\ alpha = Rat(1, 8)

\* C3: with a non-empty powerballLocked every pick's powerball is one of its
\* members; the full domain is drawn from only when powerballLocked is empty.
C3_PowerballFromLocked ==
    /\ OrEmpty(pbLockedNums) # <<>> =>
           /\ \A k \in DOMAIN picks : picks[k].powerball \in Range(OrEmpty(pbLockedNums))
           /\ pc \in {"seed", "fill"} => ~IsNullish(lockedPowerballCandidate)
    /\ (pc \in {"seed", "fill"} /\ IsNullish(lockedPowerballCandidate)) =>
           OrEmpty(pbLockedNums) = <<>>

C3_Witness ==
    /\ pc = "done"
    /\ Len(OrEmpty(pbLockedNums)) = 3
    /\ Len(picks) = 2
    /\ picks[1].powerball # picks[2].powerball

\* C8: the number of picks is within [1,50] and is count itself for an integer
\* count of [1,50]; alpha is within [0,1] and is randomnessPercent/100 for a
\* percentage of [0,100]; counts and percentages that are not finite numbers are
\* clamped like any other.
C8_Clamping ==
    pc # "call" =>
        /\ safeCount \in CountMin..CountMax
        /\ (count.t = "num" /\ count.v[2] = 1 /\ count.v[1] \in CountMin..CountMax)
               => safeCount = count.v[1]
        /\ RLe(RZero, alpha) /\ RLe(alpha, ROne)
        /\ (randomnessPct.t = "num" /\ RLe(RInt(PctMin), randomnessPct.v)
               /\ RLe(randomnessPct.v, RInt(PctMax)))
               => alpha[1] * randomnessPct.v[2] * PctScale = randomnessPct.v[1] * alpha[2]
        /\ Len(picks) <= safeCount
        /\ pc = "done" => Len(picks) \in CountMin..CountMax

C8_Witness ==
    /\ pc = "done"
    /\ count.t = "inf"
    /\ randomnessPct.t = "nan"
    /\ Len(picks) = CountMin
    /\ alpha = RZero

\* C9: with more than 5 entries in mainLocked, the numbers placed before the
\* random fill are exactly the first 5 entries (no later entry is forced), and
\* every pick pushed contains them and is well formed.
C9_OnlyFirstFiveForced ==
    [][(Len(OrEmpty(lockedMainNums)) > MaxLocked
        /\ Range(OrEmpty(lockedMainNums)) \subseteq 1..MainMax
        /\ Range(OrEmpty(pbLockedNums)) \subseteq 1..PbMax) =>
          /\ pc = "seed" =>
                 /\ Range(main') = FirstLocked
                 /\ Len(main') = Cardinality(FirstLocked)
          /\ picks' # picks =>
                 /\ ValidPick(picks'[Len(picks')])
                 /\ FirstLocked \subseteq Range(picks'[Len(picks')].main)
          /\ pc = "line" /\ pc' = "done" => Len(picks) = safeCount]_vars

C9_Witness ==
    /\ pc = "done"
    /\ Len(OrEmpty(lockedMainNums)) = 7
    /\ Cardinality(FirstLocked) = 3
    /\ Len(picks) = 2
    /\ ~(11 \in Range(picks[1].main))
    /\ ~(12 \in Range(picks[1].main))

\* the candidate list the next step hands to pickOneBlended, if it calls it
CallPending ==
    \/ pc = "line" /\ i < safeCount /\ HasCandidates(powerballCandidates)
    \/ pc = "fill" /\ Len(main) < MainCount
    \/ pc = "fill" /\ Len(main) >= MainCount /\ IsNullish(lockedPowerballCandidate)

NextCallCandidates ==
    IF pc = "line" THEN powerballCandidates
    ELSE IF Len(main) < MainCount THEN availableMain
    ELSE FullDomain(PbMax)

\* C10: pickOneBlended is never called with an empty list, and every iteration
\* of the fill loop takes one number out of the pool and adds it to the pick as
\* a new number, so the loop ends once the pick holds 5.
C10_FillLoopProgress ==
    [][/\ CallPending => Len(NextCallCandidates) > 0
       /\ (pc = "fill" /\ Len(main) < MainCount) =>
              /\ Len(main') = Len(main) + 1
              /\ SubSeq(main', 1, Len(main)) = main
              /\ main'[Len(main')] \in Range(availableMain) \ Range(main)
              /\ Range(availableMain') = Range(availableMain) \ {main'[Len(main')]}
              /\ Len(availableMain') = Len(availableMain) - 1
              /\ Len(main') <= MainCount
              /\ pc' = "fill"
       /\ (pc = "fill" /\ Len(main) >= MainCount) => pc' = "line"]_vars

C10_Witness ==
    /\ pc = "fill"
    /\ Len(lockedMain) = MaxLocked
    /\ Len(main) = MainCount
    /\ Len(availableMain) = MainMax - MainCount
    /\ i = 1

\* ------------------------------------------------------------------------
\* pickOneBlended on its own (SpecPick)
\* ------------------------------------------------------------------------
\* generatePicks is not running
GenIdle ==
    /\ count = Undefined
    /\ randomnessPct = Undefined
    /\ lockedMainNums = NullArr
    /\ pbLockedNums = NullArr
    /\ safeCount = 0
    /\ alpha = RZero
    /\ lockedMain = <<>>
    /\ powerballCandidates = <<>>
    /\ i = 0
    /\ lockedPowerballCandidate = NoValue
    /\ availableMain = <<>>
    /\ main = <<>>
    /\ picks = <<>>
    /\ entropy = <<RZero>>
    /\ consumed = 0

CandPool == {10 + k : k \in 1..MaxCand}

\* candidate lists: distinct numbers in any order, the empty list included
CandLists ==
    {s \in UNION {[1..n -> CandPool] : n \in 0..MaxCand} : IsDistinct(s)}

\* a weight, as a table may hold it (counts are positive; 0 and a negative
\* weight are what a damaged table could hold)
WeightValues == {0 - 2, 0, 1, 3}

\* the tables that differ on the candidates: any subset of them as keys
WeightTables(cands) == UNION {[S -> WeightValues] : S \in SUBSET Range(cands)}

AlphaInputs == {NaN, Num(RZero), Num(Rat(1, 3)), Num(ROne), Num(Rat(3, 2))}

RandomGrid == {RZero, Rat(1, 3), Rat(1, 2), Rat(2, 3), Rat(99, 100)}

PickCall(cands, w, a, r) ==
    [fn |-> "pickOneBlended", availableNums |-> cands, baseWeights |-> w,
     alpha |-> a, r |-> r, done |-> FALSE, result |-> NoValue]

InitPick ==
    /\ GenIdle
    /\ draws = <<>>
    /\ mainWeights = <<>>
    /\ pbWeights = <<>>
    /\ pc = "unit"
    /\ \E cands \in CandLists, a \in AlphaInputs, r \in RandomGrid :
          \E w \in WeightTables(cands) : unit = PickCall(cands, w, a, r)

\* the call returns
ApplyPick ==
    /\ unit.fn = "pickOneBlended"
    /\ ~unit.done
    /\ unit' = [unit EXCEPT
                   !.done = TRUE,
                   !.result = pickOneBlended(unit.availableNums, unit.baseWeights,
                                             unit.alpha, unit.r)]
    /\ UNCHANGED <<tables, genArgs, genLocals, rng>>

NextPick == ApplyPick

SpecPick == InitPick /\ [][NextPick]_vars

PickReturned == unit.fn = "pickOneBlended" /\ unit.done

\* C4: on a non-empty candidate list pickOneBlended returns one of the candidates.
C4_ResultIsCandidate ==
    (PickReturned /\ Len(unit.availableNums) > 0) =>
        unit.result \in Range(unit.availableNums)

\* every weight is missing from the table and alpha is not a number
C4_Witness ==
    /\ PickReturned
    /\ Len(unit.availableNums) = 3
    /\ DOMAIN unit.baseWeights = {}
    /\ unit.alpha = NaN
    /\ unit.result = unit.availableNums[2]

\* the selection rule as the contract words it, in rational arithmetic:
\* p(c) = (1 - alpha) * weight(c) / sum(weights) + alpha / |candidates|
RECURSIVE RefSum(_, _)
RefSum(cands, w) ==
    IF cands = <<>> THEN RZero ELSE RAdd(RInt(w[Head(cands)]), RefSum(Tail(cands), w))

RefP(cands, w, a, c) ==
    RAdd(RMul(RSub(ROne, a), RDiv(RInt(w[c]), RefSum(cands, w))),
         RMul(a, RDiv(ROne, RInt(Len(cands)))))

RECURSIVE RefWalk(_, _, _, _, _, _)
\* the first candidate from index k on whose running sum reaches r
RefWalk(cands, w, a, r, k, cum) ==
    IF k > Len(cands) THEN NoValue
    ELSE LET c == RAdd(cum, RefP(cands, w, a, cands[k]))
         IN  IF RLe(r, c) THEN cands[k] ELSE RefWalk(cands, w, a, r, k + 1, c)

\* the contract's inputs: a table covering the candidates with positive
\* weights, alpha in [0,1]
ContractInputs ==
    /\ Len(unit.availableNums) > 0
    /\ \A c \in Range(unit.availableNums) :
           c \in DOMAIN unit.baseWeights /\ unit.baseWeights[c] > 0
    /\ unit.alpha.t = "num"
    /\ RLe(RZero, unit.alpha.v) /\ RLe(unit.alpha.v, ROne)

\* C5: on the contract's inputs pickOneBlended returns the first candidate, in
\* the given order, whose cumulative blended probability is >= r.
C5_MatchesReference ==
    (PickReturned /\ ContractInputs) =>
        /\ unit.result # NoValue
        /\ unit.result = RefWalk(unit.availableNums, unit.baseWeights,
                                 unit.alpha.v, unit.r, 1, RZero)

\* r falls exactly on the boundary between the two candidates
C5_Witness ==
    /\ PickReturned
    /\ ContractInputs
    /\ unit.availableNums = <<12, 11>>
    /\ unit.baseWeights = (11 :> 3 @@ 12 :> 3)
    /\ unit.alpha = Num(Rat(1, 3))
    /\ unit.r = Rat(1, 2)
    /\ unit.result = 12

\* ------------------------------------------------------------------------
\* The frequency tables and the picks made from them (SpecTables)
\* ------------------------------------------------------------------------
DrawPool == {DrawA, DrawB, DrawC, DrawD}

\* the histories explored: up to MaxDraws draws, the empty history included
Histories == UNION {[1..n -> DrawPool] : n \in 0..MaxDraws}

\* the candidate pools generatePicks draws from: a whole domain, the main
\* domain with locked numbers taken out, a locked powerball set
TablePools ==
    {[which |-> "main", nums |-> FullDomain(MainMax)],
     [which |-> "main",
      nums |-> SeedForced(<<69, 11, 1, 36, 21>>, 1, <<>>, FullDomain(MainMax))[2]],
     [which |-> "pb", nums |-> FullDomain(PbMax)],
     [which |-> "pb", nums |-> <<26, 24, 13>>]}

TableAlphas == {RZero, Rat(1, 2), ROne}

InitTables ==
    /\ GenIdle
    /\ draws \in Histories
    /\ mainWeights = <<>>
    /\ pbWeights = <<>>
    /\ pc = "tables"
    /\ unit = UnitIdle

\* the useMemo bodies of analysis, mainBaseWeights and pbBaseWeights run
BuildTables ==
    /\ pc = "tables"
    /\ mainWeights' = mainBaseWeights(draws)
    /\ pbWeights' = pbBaseWeights(draws)
    /\ pc' = "built"
    /\ UNCHANGED <<draws, genArgs, safeCount, alpha, lockedMain, powerballCandidates,
                   i, lockedPowerballCandidate, availableMain, main, picks, rng, unit>>

\* one call of pickOneBlended on a pool, with the table of its domain
PickFromTables ==
    /\ pc = "built"
    /\ \E pool \in TablePools, a \in TableAlphas, r \in RandomValues :
          unit' = [fn |-> "pickOneBlended",
                   availableNums |-> pool.nums,
                   baseWeights |-> IF pool.which = "main" THEN mainWeights ELSE pbWeights,
                   alpha |-> Num(a), r |-> r, done |-> TRUE,
                   result |-> pickOneBlended(
                                  pool.nums,
                                  IF pool.which = "main" THEN mainWeights ELSE pbWeights,
                                  Num(a), r)]
    /\ pc' = "picked"
    /\ UNCHANGED <<tables, genArgs, safeCount, alpha, lockedMain, powerballCandidates,
                   i, lockedPowerballCandidate, availableMain, main, picks, rng>>

NextTables == BuildTables \/ PickFromTables

SpecTables == InitTables /\ [][NextTables]_vars

\* how often n is among the main numbers of the history, counted as positions
MainOccurrences(n) ==
    Cardinality({p \in (DOMAIN draws) \X (1..MainCount) :
                    p[2] \in DOMAIN draws[p[1]].main /\ draws[p[1]].main[p[2]] = n})

\* how often n is the powerball of a draw of the history
PbOccurrences(n) ==
    Cardinality({d \in DOMAIN draws : draws[d].powerball = Num(RInt(n))})

\* C6: the tables hold every integer of their domain (1..69, 1..26) with the
\* number of its occurrences in the history + 1; over an empty history every
\* weight is 1.
C6_TablesCountPlusOne ==
    pc \in {"built", "picked"} =>
        /\ DOMAIN mainWeights = 1..MainMax
        /\ DOMAIN pbWeights = 1..PbMax
        /\ \A n \in 1..MainMax : mainWeights[n] = MainOccurrences(n) + 1
        /\ \A n \in 1..PbMax : pbWeights[n] = PbOccurrences(n) + 1
        /\ draws = <<>> =>
               /\ \A n \in 1..MainMax : mainWeights[n] = 1
               /\ \A n \in 1..PbMax : pbWeights[n] = 1

\* a history in which a main number occurs twice and one powerball is not a number
C6_Witness ==
    /\ pc = "built"
    /\ draws = <<DrawA, DrawD>>
    /\ mainWeights[11] = 2
    /\ mainWeights[18] = 2
    /\ mainWeights[69] = 1
    /\ pbWeights[24] = 2
    /\ pbWeights[18] = 1

RECURSIVE CumBefore(_, _, _, _, _)
\* the numerators of p summed over the candidates before index k
CumBefore(availableNums, baseWeights, a, sumW, k) ==
    IF k <= 1 THEN 0
    ELSE BlendedP(availableNums, baseWeights, a, sumW, availableNums[k - 1])
         + CumBefore(availableNums, baseWeights, a, sumW, k - 1)

\* the middle of the interval of cumulative probability that belongs to the
\* candidate at index k
MidPoint(availableNums, baseWeights, a, k) ==
    LET sumW == SumW(availableNums, baseWeights)
    IN  Rat(2 * CumBefore(availableNums, baseWeights, a, sumW, k)
              + BlendedP(availableNums, baseWeights, a, sumW, availableNums[k]),
            2 * Denominator(availableNums, a, sumW))

\* C7: every weight of the tables is strictly positive, and for every candidate
\* of a pool there is an r of [0,1) for which pickOneBlended returns it.
C7_NoNumberUnpickable ==
    /\ pc \in {"built", "picked"} =>
           /\ \A n \in DOMAIN mainWeights : mainWeights[n] > 0
           /\ \A n \in DOMAIN pbWeights : pbWeights[n] > 0
    /\ pc = "picked" =>
           \A k \in DOMAIN unit.availableNums :
               \E r \in {MidPoint(unit.availableNums, unit.baseWeights, unit.alpha.v, k)} :
                   /\ RLe(RZero, r) /\ RLt(r, ROne)
                   /\ pickOneBlended(unit.availableNums, unit.baseWeights,
                                     unit.alpha, r) = unit.availableNums[k]

\* a number never drawn is returned from the full main domain under pure
\* frequency weighting
C7_Witness ==
    /\ pc = "picked"
    /\ draws = <<DrawA, DrawC>>
    /\ unit.alpha = Num(RZero)
    /\ Len(unit.availableNums) = MainMax
    /\ unit.r = Rat(1, 2)
    /\ mainWeights[unit.result] = 1

\* ---------------------------------------------------------------------------
\* Prize evaluation: computePrize (the page and the sync worker carry the same
\* function) and getOdds.
\* ---------------------------------------------------------------------------

POWERBALL_JACKPOT_ODDS_ONE_IN == 292201338

\* a prize is a dollar amount (a number) or the string "JACKPOT"
Jackpot == [t |-> "jackpot", v |-> RZero]
Amount(n) == Num(RInt(n))

\* the key `${whiteMatches}-${pbMatch ? 1 : 0}` as a pair
PrizeKey(whiteMatches, pbMatch) == <<whiteMatches, IF pbMatch THEN 1 ELSE 0>>

baseTableShifted ==
    (<<5, 1>> :> Jackpot @@ <<5, 0>> :> Amount(1000000)
     @@ <<4, 1>> :> Amount(50000) @@ <<4, 0>> :> Amount(100)
     @@ <<3, 1>> :> Amount(100) @@ <<3, 0>> :> Amount(7)
     @@ <<2, 1>> :> Amount(7) @@ <<2, 0>> :> Amount(4)
     @@ <<1, 1>> :> Amount(4))

baseTable ==
    (<<5, 1>> :> Jackpot @@ <<5, 0>> :> Amount(1000000)
     @@ <<4, 1>> :> Amount(50000) @@ <<4, 0>> :> Amount(100)
     @@ <<3, 1>> :> Amount(100) @@ <<3, 0>> :> Amount(7)
     @@ <<2, 1>> :> Amount(7) @@ <<1, 1>> :> Amount(4)
     @@ <<0, 1>> :> Amount(4))

\* table[key] ?? dflt
LookupOr(table, key, dflt) ==
    IF key \in DOMAIN table THEN table[key] ELSE dflt

validMFromOne(m) ==
    IF IsFinite(m) /\ RLe(ROne, m.v) THEN m ELSE Null

\* Number.isFinite(m) && m >= 2 ? m : null
validMOf(m) ==
    IF IsFinite(m) /\ RLe(RInt(2), m.v) THEN m ELSE Null

IsMatch5Never(key) == FALSE

\* key === "5-0"
IsMatch5(key) == key = <<5, 0>>

MultipliedNot(base, validM) == base

\* base * validM
Multiplied(base, validM) == Num(RMul(base.v, validM.v))

computePrize(whiteMatches, pbMatch, powerPlayMultiplier) ==
    LET key == PrizeKey(whiteMatches, pbMatch)
        base == LookupOr(baseTable, key, Amount(0))
        validM == validMOf(ToNumber(powerPlayMultiplier))
    IN  IF powerPlayMultiplier.t \in {"null", "undef"}
        THEN [base |-> base, withPowerPlay |-> Null]
        ELSE IF validM = Null
        THEN [base |-> base, withPowerPlay |-> Null]
        ELSE IF base = Jackpot
        THEN [base |-> base, withPowerPlay |-> Jackpot]
        ELSE IF base = Amount(0)
        THEN [base |-> Amount(0), withPowerPlay |-> Amount(0)]
        ELSE IF IsMatch5(key)
        THEN [base |-> base, withPowerPlay |-> Amount(2000000)]
        ELSE [base |-> base, withPowerPlay |-> Multiplied(base, validM)]

\* the sync worker's copy of the function
workerBaseTable ==
    (<<5, 1>> :> Jackpot @@ <<5, 0>> :> Amount(1000000)
     @@ <<4, 1>> :> Amount(50000) @@ <<4, 0>> :> Amount(100)
     @@ <<3, 1>> :> Amount(100) @@ <<3, 0>> :> Amount(7)
     @@ <<2, 1>> :> Amount(7) @@ <<1, 1>> :> Amount(4)
     @@ <<0, 1>> :> Amount(4))

workerComputePrize(whiteMatches, pbMatch, powerPlayMultiplier) ==
    LET key == PrizeKey(whiteMatches, pbMatch)
        base == LookupOr(workerBaseTable, key, Amount(0))
        m == ToNumber(powerPlayMultiplier)
        validM == IF IsFinite(m) /\ RLe(RInt(2), m.v) THEN m ELSE Null
    IN  IF powerPlayMultiplier.t \in {"null", "undef"}
        THEN [base |-> base, withPowerPlay |-> Null]
        ELSE IF validM = Null
        THEN [base |-> base, withPowerPlay |-> Null]
        ELSE IF base = Jackpot
        THEN [base |-> base, withPowerPlay |-> Jackpot]
        ELSE IF base = Amount(0)
        THEN [base |-> Amount(0), withPowerPlay |-> Amount(0)]
        ELSE IF key = <<5, 0>>
        THEN [base |-> base, withPowerPlay |-> Amount(2000000)]
        ELSE [base |-> base, withPowerPlay |-> Num(RMul(base.v, validM.v))]

oddsTableShort ==
    (<<5, 1>> :> Num(RInt(292201338)) @@ <<5, 0>> :> Num(Rat(1168805352, 100))
     @@ <<4, 1>> :> Num(Rat(91312918, 100)) @@ <<4, 0>> :> Num(Rat(3652517, 100))
     @@ <<3, 1>> :> Num(Rat(1449411, 100)) @@ <<3, 0>> :> Num(Rat(57976, 100))
     @@ <<2, 1>> :> Num(Rat(70133, 100)) @@ <<1, 1>> :> Num(Rat(9198, 100)))

oddsTable ==
    (<<5, 1>> :> Num(RInt(292201338)) @@ <<5, 0>> :> Num(Rat(1168805352, 100))
     @@ <<4, 1>> :> Num(Rat(91312918, 100)) @@ <<4, 0>> :> Num(Rat(3652517, 100))
     @@ <<3, 1>> :> Num(Rat(1449411, 100)) @@ <<3, 0>> :> Num(Rat(57976, 100))
     @@ <<2, 1>> :> Num(Rat(70133, 100)) @@ <<1, 1>> :> Num(Rat(9198, 100))
     @@ <<0, 1>> :> Num(Rat(3832, 100)))

getOdds(whiteMatches, pbMatch) ==
    LookupOr(oddsTable, PrizeKey(whiteMatches, pbMatch), Null)

\* --- SpecPrize: one call of a prize function on enumerated arguments --------

\* match counts 0..5, and one count beyond what five main numbers can give
WhiteMatchInputs == 0..(MainCount + 1)

MultiplierInputs ==
    {Null, Undefined, NaN, Text, Infinity, NegInfinity,
     Num(RZero), Num(ROne), Num(Rat(3, 2)), Num(RInt(2)), Num(Rat(5, 2)),
     Num(RInt(3)), Num(RInt(10))}

PrizeCall(fn, whiteMatches, pbMatch, powerPlayMultiplier) ==
    [fn |-> fn, whiteMatches |-> whiteMatches, pbMatch |-> pbMatch,
     powerPlayMultiplier |-> powerPlayMultiplier, done |-> FALSE,
     result |-> Undefined]

InitPrize ==
    /\ GenIdle
    /\ draws = <<>>
    /\ mainWeights = <<>>
    /\ pbWeights = <<>>
    /\ pc = "unit"
    /\ \E whiteMatches \in WhiteMatchInputs, pbMatch \in BOOLEAN :
          \/ \E fn \in {"computePrize", "workerComputePrize"},
                powerPlayMultiplier \in MultiplierInputs :
                 unit = PrizeCall(fn, whiteMatches, pbMatch, powerPlayMultiplier)
          \/ unit = PrizeCall("getOdds", whiteMatches, pbMatch, Undefined)

ApplyComputePrize ==
    /\ unit.fn = "computePrize"
    /\ ~unit.done
    /\ unit' = [unit EXCEPT
                   !.done = TRUE,
                   !.result = computePrize(unit.whiteMatches, unit.pbMatch,
                                           unit.powerPlayMultiplier)]
    /\ UNCHANGED <<tables, genArgs, genLocals, rng>>

ApplyWorkerComputePrize ==
    /\ unit.fn = "workerComputePrize"
    /\ ~unit.done
    /\ unit' = [unit EXCEPT
                   !.done = TRUE,
                   !.result = workerComputePrize(unit.whiteMatches, unit.pbMatch,
                                                 unit.powerPlayMultiplier)]
    /\ UNCHANGED <<tables, genArgs, genLocals, rng>>

ApplyGetOdds ==
    /\ unit.fn = "getOdds"
    /\ ~unit.done
    /\ unit' = [unit EXCEPT
                   !.done = TRUE,
                   !.result = getOdds(unit.whiteMatches, unit.pbMatch)]
    /\ UNCHANGED <<tables, genArgs, genLocals, rng>>

NextPrize == ApplyComputePrize \/ ApplyWorkerComputePrize \/ ApplyGetOdds

SpecPrize == InitPrize /\ [][NextPrize]_vars

PrizeReturned == unit.fn \in {"computePrize", "workerComputePrize"} /\ unit.done

\* the tier table as the prize chart states it
TierBase(whiteMatches, pbMatch) ==
    CASE whiteMatches = 5 /\ pbMatch -> Jackpot
      [] whiteMatches = 5 /\ ~pbMatch -> Amount(1000000)
      [] whiteMatches = 4 /\ pbMatch -> Amount(50000)
      [] whiteMatches = 4 /\ ~pbMatch -> Amount(100)
      [] whiteMatches = 3 /\ pbMatch -> Amount(100)
      [] whiteMatches = 3 /\ ~pbMatch -> Amount(7)
      [] whiteMatches = 2 /\ pbMatch -> Amount(7)
      [] whiteMatches = 1 /\ pbMatch -> Amount(4)
      [] whiteMatches = 0 /\ pbMatch -> Amount(4)
      [] OTHER -> Amount(0)

\* a multiplier that is a finite number >= 2
ValidMultiplier(value) == value.t = "num" /\ value.v[1] >= 2 * value.v[2]

\* C11: the base computePrize returns is the tier table's value for the match
\* counts, and 0 for every combination the table does not list.
C11_BaseFromTierTable ==
    PrizeReturned =>
        unit.result.base = TierBase(unit.whiteMatches, unit.pbMatch)

C11_Witness ==
    /\ PrizeReturned
    /\ unit.whiteMatches = 0
    /\ unit.pbMatch
    /\ unit.result.base = Amount(4)

\* C12: five white numbers without the powerball and a finite multiplier >= 2
\* give withPowerPlay 2,000,000 whatever the multiplier is.
C12_Match5Fixed ==
    (/\ PrizeReturned
     /\ unit.whiteMatches = 5
     /\ ~unit.pbMatch
     /\ ValidMultiplier(unit.powerPlayMultiplier))
        => unit.result.withPowerPlay = Amount(2000000)

C12_Witness ==
    /\ PrizeReturned
    /\ unit.whiteMatches = 5
    /\ ~unit.pbMatch
    /\ unit.powerPlayMultiplier = Num(RInt(10))
    /\ unit.result = [base |-> Amount(1000000), withPowerPlay |-> Amount(2000000)]

\* C13: with a finite multiplier >= 2 the jackpot stays the jackpot, a zero
\* prize stays zero, and every other tier except five white without the
\* powerball pays base * multiplier.
C13_MultipliedTiers ==
    (PrizeReturned /\ ValidMultiplier(unit.powerPlayMultiplier)) =>
        LET base == TierBase(unit.whiteMatches, unit.pbMatch)
            with == unit.result.withPowerPlay
            m == unit.powerPlayMultiplier.v
        IN  /\ base = Jackpot => with = Jackpot
            /\ base = Amount(0) => with = Amount(0)
            /\ (/\ base # Jackpot
                /\ base # Amount(0)
                /\ ~(unit.whiteMatches = 5 /\ ~unit.pbMatch)) =>
                   /\ with.t = "num"
                   /\ with.v[1] * m[2] = base.v[1] * m[1] * with.v[2]

C13_Witness ==
    /\ PrizeReturned
    /\ unit.whiteMatches = 4
    /\ unit.pbMatch
    /\ unit.powerPlayMultiplier = Num(Rat(5, 2))
    /\ unit.result.withPowerPlay = Amount(125000)

\* C14: without a multiplier, or with one that is not a finite number >= 2,
\* computePrize returns the tier's base with a null withPowerPlay, on every
\* tier.
C14_InvalidMultiplier ==
    (PrizeReturned /\ ~ValidMultiplier(unit.powerPlayMultiplier)) =>
        /\ unit.result.withPowerPlay = Null
        /\ unit.result.base = TierBase(unit.whiteMatches, unit.pbMatch)

C14_Witness ==
    /\ PrizeReturned
    /\ unit.whiteMatches = 5
    /\ unit.pbMatch
    /\ unit.powerPlayMultiplier = Num(Rat(3, 2))
    /\ unit.result = [base |-> Jackpot, withPowerPlay |-> Null]

\* the nine combinations the odds table lists
ListedTiers ==
    {<<5, TRUE>>, <<5, FALSE>>, <<4, TRUE>>, <<4, FALSE>>, <<3, TRUE>>,
     <<3, FALSE>>, <<2, TRUE>>, <<1, TRUE>>, <<0, TRUE>>}

\* C15: getOdds returns a positive number on the nine listed combinations
\* (the jackpot odds on five white with the powerball) and null on every
\* other one; it is non-null exactly where computePrize's base is non-zero.
C15_OddsWherePrize ==
    (unit.fn = "getOdds" /\ unit.done) =>
        /\ <<unit.whiteMatches, unit.pbMatch>> \in ListedTiers <=> unit.result # Null
        /\ unit.result # Null =>
               /\ unit.result.t = "num"
               /\ unit.result.v[1] > 0
        /\ (unit.whiteMatches = 5 /\ unit.pbMatch) =>
               unit.result = Amount(POWERBALL_JACKPOT_ODDS_ONE_IN)
        /\ unit.result # Null <=>
               computePrize(unit.whiteMatches, unit.pbMatch, Null).base # Amount(0)

C15_Witness ==
    /\ unit.fn = "getOdds"
    /\ unit.done
    /\ unit.whiteMatches = 0
    /\ unit.pbMatch
    /\ unit.result = Num(Rat(3832, 100))

\* the weight table with every candidate it does not list given weight 1
DefaultedWeights(cands, w) ==
    [c \in Range(cands) |-> IF c \in DOMAIN w THEN w[c] ELSE 1]

\* a non-empty list, positive weights on the candidates the table lists, alpha
\* in [0,1]
PartialTableInputs ==
    /\ Len(unit.availableNums) > 0
    /\ \A c \in DOMAIN unit.baseWeights : unit.baseWeights[c] > 0
    /\ unit.alpha.t = "num"
    /\ RLe(RZero, unit.alpha.v) /\ RLe(unit.alpha.v, ROne)

\* C17: a candidate the table does not list counts with weight 1 both as its
\* own weight and in the sum of weights that normalises weightedP, so the
\* selection is that of the table with the missing weights set to 1.
C17_AbsentWeightIsOne ==
    (PickReturned /\ PartialTableInputs) =>
        LET filled == DefaultedWeights(unit.availableNums, unit.baseWeights)
        IN  /\ \A c \in Range(unit.availableNums) :
                   GetOr(unit.baseWeights, c, 1) = filled[c]
            /\ RInt(SumW(unit.availableNums, unit.baseWeights))
                   = RefSum(unit.availableNums, filled)
            /\ unit.result = RefWalk(unit.availableNums, filled,
                                     unit.alpha.v, unit.r, 1, RZero)

RECURSIVE LoopReturns(_, _, _, _, _, _, _)
\* whether the loop over availableNums from index k on returns a candidate,
\* rather than ending and leaving the last element to be returned
LoopReturns(availableNums, baseWeights, a, sumW, r, k, cumulative) ==
    IF k > Len(availableNums) THEN FALSE
    ELSE LET n == availableNums[k]
             c == cumulative + BlendedP(availableNums, baseWeights, a, sumW, n)
         IN  \/ Hit(r, c, Denominator(availableNums, a, sumW))
             \/ LoopReturns(availableNums, baseWeights, a, sumW, r, k + 1, c)

\* C16: for every non-empty candidate list, weight table and alpha in [0,1]
\* the probabilities p of the candidates sum to exactly 1, and for every r of
\* [0,1) the loop returns before the fallback.
C16_ProbabilitiesSumToOne ==
    (PickReturned /\ PartialTableInputs) =>
        LET a == clampNumber(unit.alpha, 0, 1)
            sumW == SumW(unit.availableNums, unit.baseWeights)
        IN  /\ CumBefore(unit.availableNums, unit.baseWeights, a, sumW,
                         Len(unit.availableNums) + 1)
                   = Denominator(unit.availableNums, a, sumW)
            /\ LoopReturns(unit.availableNums, unit.baseWeights, a, sumW,
                           unit.r, 1, 0)

MinOf(S) == CHOOSE x \in S : \A y \in S : x <= y

\* the sum of the weights of the first k candidates
PrefixWeight(cands, w, k) == RefSum(SubSeq(cands, 1, k), w)[1]

\* C18: with alpha = 1 every candidate has probability 1/|candidates| whatever
\* the table holds, and the candidate returned is the one whose equal share of
\* [0,1] contains r; with alpha = 0 and a table of positive weights covering
\* the candidates, every candidate has probability weight / (sum of the
\* candidates' weights), and the candidate returned is the one whose share
\* contains r.
C18_BlendEndpoints ==
    (PickReturned /\ Len(unit.availableNums) > 0) =>
        LET cands == unit.availableNums
            w == unit.baseWeights
            r == unit.r
            a == clampNumber(unit.alpha, 0, 1)
            sumW == SumW(cands, w)
            den == Denominator(cands, a, sumW)
        IN  /\ a = ROne =>
                   /\ \A c \in Range(cands) :
                          BlendedP(cands, w, a, sumW, c) * Len(cands) = den
                   /\ unit.result
                          = cands[MinOf({k \in 1..Len(cands) :
                                             r[1] * Len(cands) <= k * r[2]})]
            /\ (a = RZero /\ ContractInputs) =>
                   /\ \A c \in Range(cands) :
                          BlendedP(cands, w, a, sumW, c) * PrefixWeight(cands, w, Len(cands))
                              = w[c] * den
                   /\ unit.result
                          = cands[MinOf({k \in 1..Len(cands) :
                                             r[1] * PrefixWeight(cands, w, Len(cands))
                                                 <= PrefixWeight(cands, w, k) * r[2]})]

\* pure uniform selection overrides a table that favours the first candidate
C18_Witness ==
    /\ PickReturned
    /\ unit.availableNums = <<11, 12>>
    /\ unit.baseWeights = (11 :> 3 @@ 12 :> 1)
    /\ unit.alpha = Num(ROne)
    /\ unit.r = Rat(2, 3)
    /\ unit.result = 12

\* C19: no step of generatePicks changes what the caller passed in
\* (lockedMainNums, pbLockedNums, count, randomnessPct) or the draw history
\* and the two weight tables.
C19_NoSideEffects == [][genArgs' = genArgs /\ tables' = tables]_vars

\* a call that picked powerballs from the caller's own array and main numbers
\* from the tables has returned
C19_Witness ==
    /\ pc = "done"
    /\ Len(picks) >= 2
    /\ pbLockedNums = Arr(<<26, 1, 13>>)
    /\ lockedMainNums = Arr(<<7, 7, 8, 9, 7, 11, 12>>)
    /\ picks[1].powerball \in {26, 1, 13}
    /\ consumed > 0

\* ---------------------------------------------------------------------------
\* SpecAgain: generatePicks is called, returns, and is called a second time
\* with the same arguments, over the same tables, with the entropy stream
\* read from its start again.
\* ---------------------------------------------------------------------------

AgainInputs ==
    [count : {Num(RInt(2))},
     randomnessPct : {Num(RZero), Num(Rat(25, 2)), Num(RInt(PctMax))},
     lockedMainNums : {NullArr, Arr(<<36, 3>>), Arr(<<7, 7, 8, 9, 7, 11, 12>>)},
     pbLockedNums : {NullArr, Arr(<<24>>), Arr(<<26, 1, 13>>)},
     draws : {<<DrawA, DrawC, DrawB>>}, entropy : EntropyStreams]

\* the first call is about to start; nothing has been returned yet
FirstCall == [fn |-> "generatePicks", call |-> 1, returned |-> <<>>]

InitAgain ==
    /\ \E in \in AgainInputs :
          /\ count = in.count
          /\ randomnessPct = in.randomnessPct
          /\ lockedMainNums = in.lockedMainNums
          /\ pbLockedNums = in.pbLockedNums
          /\ draws = in.draws
          /\ entropy = in.entropy
    /\ mainWeights = mainBaseWeights(draws)
    /\ pbWeights = pbBaseWeights(draws)
    /\ consumed = 0
    /\ safeCount = 0
    /\ alpha = RZero
    /\ lockedMain = <<>>
    /\ powerballCandidates = <<>>
    /\ i = 0
    /\ lockedPowerballCandidate = NoValue
    /\ availableMain = <<>>
    /\ main = <<>>
    /\ picks = <<>>
    /\ pc = "call"
    /\ unit = FirstCall

\* the first call has returned: its picks are kept by the caller and the
\* function is called again with the caller's same arguments; the locals of
\* the finished call are gone (each is assigned again before it is read)
CallAgain ==
    /\ pc = "done"
    /\ unit.fn = "generatePicks"
    /\ unit.call = 1
    /\ unit' = [unit EXCEPT !.call = 2, !.returned = picks]
    /\ consumed' = 0
    /\ pc' = "call"
    /\ UNCHANGED <<tables, genArgs, entropy, safeCount, alpha, lockedMain,
                   powerballCandidates, i, lockedPowerballCandidate,
                   availableMain, main, picks>>

NextAgain == NextGen \/ CallAgain

SpecAgain == InitAgain /\ [][NextAgain]_vars

HonoredLocks ==
    Cardinality({OrEmpty(lockedMainNums)[j] :
                     j \in {j \in 1..Len(OrEmpty(lockedMainNums)) : j <= MaxLocked}})

\* C21: between two lines of a call, the number of values read from the
\* entropy stream is (MainCount - k) + 1 per line generated, k being the number
\* of distinct locked main numbers honored, with or without locked powerballs.
C21_EntropyPerPick ==
    pc \in {"line", "done"} =>
        consumed = i * ((MainCount - HonoredLocks) + 1)

\* two lines with three distinct locked main numbers and locked powerballs
C21_Witness ==
    /\ pc = "done"
    /\ i = 2
    /\ lockedMainNums = Arr(<<7, 7, 8, 9, 7, 11, 12>>)
    /\ pbLockedNums = Arr(<<26, 1, 13>>)
    /\ consumed = 6

\* ---------------------------------------------------------------------------
\* The page's component state. The handlers of the lock pickers:
\* toggleMainLocked, togglePowerballLocked and the two Clear buttons.
\* ---------------------------------------------------------------------------

MainLockedToggleLimit == 5
LockedErrorLimit == 5

\* a state that holds null (no message, no edit session)
NoError == "null"
MainLockedLimitMessage == "Main locked is limited to 5 numbers."
LockedErrorMessage == "Main locked can include at most 5 numbers (since there are only 5 main balls)."

\* arr.filter((x) => x !== value)
RECURSIVE Without(_, _)
Without(arr, value) ==
    IF arr = <<>> THEN <<>>
    ELSE IF Head(arr) = value THEN Without(Tail(arr), value)
    ELSE <<Head(arr)>> \o Without(Tail(arr), value)

\* arr.includes(value) ? arr.filter((n) => n !== value) : [...arr, value]
toggleInSet(arr, value) ==
    IF Includes(arr, value) THEN Without(arr, value) ELSE Append(arr, value)

\* useMemo: mainLocked.length > 5 ? message : null
lockedError(mainLocked) ==
    IF Len(mainLocked) > LockedErrorLimit THEN LockedErrorMessage ELSE NoError

\* one number more than the limit is let in
AtToggleLimitLoose(prev) == Len(prev) > MainLockedToggleLimit

\* prev.length >= 5
AtToggleLimit(prev) == Len(prev) >= MainLockedToggleLimit

\* the updater of setMainLocked in toggleMainLocked: the pair
\* <<next mainLocked, next mainLockedUiError>>; the error is cleared before
\* the updater runs
toggleMainLockedUpdate(prev, n) ==
    IF Includes(prev, n) THEN <<Without(prev, n), NoError>>
    ELSE IF AtToggleLimit(prev) THEN <<prev, MainLockedLimitMessage>>
    ELSE <<SortAsc(Append(prev, n)), NoError>>

\* --- SpecLocks ---------------------------------------------------------------

\* how many of the 69 main-number buttons and of the 26 powerball buttons are
\* pressed in the runs explored
MaxMainButtons == 6
MaxPbButtons == 2

\* buttons from both ends of the grid of main numbers
MainButtons ==
    {n \in 1..MainMax : n <= MaxMainButtons \div 2
                        \/ n > MainMax - (MaxMainButtons - MaxMainButtons \div 2)}
PbButtons == {n \in 1..PbMax : n > PbMax - MaxPbButtons}

Event(op, n) == [op |-> op, n |-> n]

InitLocks ==
    /\ GenIdle
    /\ draws = <<>>
    /\ mainWeights = <<>>
    /\ pbWeights = <<>>
    /\ pc = "page"
    /\ unit = [fn |-> "locks", mainLocked |-> <<>>, powerballLocked |-> <<>>,
               mainLockedUiError |-> NoError, event |-> Event("mount", 0)]

ToggleMainLocked ==
    /\ unit.fn = "locks"
    /\ \E n \in MainButtons :
          LET next == toggleMainLockedUpdate(unit.mainLocked, n)
          IN  unit' = [unit EXCEPT !.mainLocked = next[1],
                                   !.mainLockedUiError = next[2],
                                   !.event = Event("toggleMainLocked", n)]
    /\ UNCHANGED <<tables, genArgs, genLocals, rng>>

\* the Clear button is rendered while mainLocked.length > 0
ClearMainLocked ==
    /\ unit.fn = "locks"
    /\ Len(unit.mainLocked) > 0
    /\ unit' = [unit EXCEPT !.mainLocked = <<>>, !.event = Event("clearMainLocked", 0)]
    /\ UNCHANGED <<tables, genArgs, genLocals, rng>>

TogglePowerballLocked ==
    /\ unit.fn = "locks"
    /\ \E n \in PbButtons :
          unit' = [unit EXCEPT
                       !.powerballLocked = SortAsc(toggleInSet(unit.powerballLocked, n)),
                       !.event = Event("togglePowerballLocked", n)]
    /\ UNCHANGED <<tables, genArgs, genLocals, rng>>

ClearPowerballLocked ==
    /\ unit.fn = "locks"
    /\ Len(unit.powerballLocked) > 0
    /\ unit' = [unit EXCEPT !.powerballLocked = <<>>,
                            !.event = Event("clearPowerballLocked", 0)]
    /\ UNCHANGED <<tables, genArgs, genLocals, rng>>

NextLocks ==
    ToggleMainLocked \/ ClearMainLocked \/ TogglePowerballLocked \/ ClearPowerballLocked

SpecLocks == InitLocks /\ [][NextLocks]_vars

\* at most 5 distinct integers of [1,69] in ascending order
ValidMainLocked(mainLocked) ==
    /\ Len(mainLocked) <= 5
    /\ Range(mainLocked) \subseteq 1..MainMax
    /\ \A k \in 1..(Len(mainLocked) - 1) : mainLocked[k] < mainLocked[k + 1]

\* C24: every toggle or Clear leaves mainLocked with at most 5 distinct
\* integers of [1,69] in ascending order and lockedError null; toggling a
\* number on while 5 are locked leaves mainLocked as it was and sets the
\* limit message.
C24_MainLockedAtMostFive ==
    [][unit.fn = "locks" =>
          /\ ValidMainLocked(unit'.mainLocked)
          /\ lockedError(unit'.mainLocked) = NoError
          /\ (/\ unit'.event.op = "toggleMainLocked"
              /\ Len(unit.mainLocked) = 5
              /\ ~Includes(unit.mainLocked, unit'.event.n)) =>
                 /\ unit'.mainLocked = unit.mainLocked
                 /\ unit'.mainLockedUiError = MainLockedLimitMessage]_vars

\* a sixth number has just been refused
C24_Witness ==
    /\ unit.fn = "locks"
    /\ unit.event.op = "toggleMainLocked"
    /\ Len(unit.mainLocked) = 5
    /\ ~Includes(unit.mainLocked, unit.event.n)
    /\ unit.mainLockedUiError = MainLockedLimitMessage

\* ---------------------------------------------------------------------------
\* generatePicks as one function of its arguments, the two weight tables and
\* the values Math.random() returns (stream, read cyclically from its start)
\* ---------------------------------------------------------------------------

RandomAt(stream, c) == stream[(c % Len(stream)) + 1]

RECURSIVE FillLine(_, _, _, _, _, _)
\* while (main.length < 5) { ... }: the pair <<main, values read so far>>
FillLine(main_, availableMain_, weights, a, stream, c) ==
    IF Len(main_) >= MainCount THEN <<main_, c>>
    ELSE LET selected == pickOneBlended(availableMain_, weights, Num(a),
                                        RandomAt(stream, c))
         IN  FillLine(Append(main_, selected),
                      RemoveSelected(availableMain_, selected),
                      weights, a, stream, c + 1)

\* the body of the for loop: the pair <<pick, values read so far>>
GenerateLine(a, lockedMain_, candidates, mainW, pbW, stream, c) ==
    LET locked == IF HasCandidates(candidates)
                  THEN pickOneBlended(candidates, pbW, Num(a), RandomAt(stream, c))
                  ELSE NoValue
        c1 == IF HasCandidates(candidates) THEN c + 1 ELSE c
        seeded == SeedForced(lockedMain_, 1, <<>>, FullDomain(MainMax))
        filled == FillLine(seeded[1], seeded[2], mainW, a, stream, c1)
        c2 == filled[2]
        powerball == IF IsNullish(locked)
                     THEN pickOneBlended(FullDomain(PbMax), pbW, Num(a),
                                         RandomAt(stream, c2))
                     ELSE locked
    IN  <<[main |-> SortAsc(filled[1]), powerball |-> powerball],
          IF IsNullish(locked) THEN c2 + 1 ELSE c2>>

RECURSIVE GenerateLines(_, _, _, _, _, _, _, _, _)
GenerateLines(k, safeCount_, a, lockedMain_, candidates, mainW, pbW, stream, c) ==
    IF k >= safeCount_ THEN <<>>
    ELSE LET line == GenerateLine(a, lockedMain_, candidates, mainW, pbW, stream, c)
         IN  <<line[1]>> \o GenerateLines(k + 1, safeCount_, a, lockedMain_, candidates,
                                          mainW, pbW, stream, line[2])

generatePicks(count_, randomnessPct_, lockedMainNums_, pbLockedNums_, mainW, pbW, stream) ==
    GenerateLines(0, clampInt(count_, CountMin, CountMax),
                  RDiv(clampNumber(randomnessPct_, PctMin, PctMax), RInt(PctScale)),
                  Slice0(OrEmpty(lockedMainNums_), MaxLocked),
                  OrEmpty(pbLockedNums_), mainW, pbW, stream, 0)

\* ---------------------------------------------------------------------------
\* The picks list and its edit session: Generate New Picks, beginEdit, the
\* input's onChange, commitEdit, cancelEdit, the settings and the loading of
\* draw data. The timers of the ball animation only write displayPicks and
\* animatingBalls, which no handler below reads; they are followed in
\* SpecAnim, and here every handler runs with the animation at rest.
\* ---------------------------------------------------------------------------

EditPbMin == 1
EditPbMax == 26
EditMainMin == 1
EditMainMax == 69
InitialNumLines == 5
InitialRandomness == 70

EnterNumberMessage == "Enter a number."
PowerballRangeMessage == "Powerball must be 1-26."
PowerballLockedMessage == "Powerball must be one of your Powerball locked numbers."
MainRangeMessage == "Main numbers must be 1-69."
AlreadyInLineMessage == "That number is already in this line."
MustIncludeLockedMessage == "This line must include all your Main locked numbers. Remove it from Main locked first if you want to change it."

\* editing === null
NoEdit == [lineIdx |-> NoValue, kind |-> "null", index |-> NoValue]

\* array.filter((_, i) => i !== index), index 0-based
WithoutIndex(arr, index) ==
    [k \in 1..(Len(arr) - (IF index >= 0 /\ index < Len(arr) THEN 1 ELSE 0)) |->
        IF index >= 0 /\ k > index THEN arr[k + 1] ELSE arr[k]]

\* currentPick.main.filter((_, i) => i !== index)
OtherNums(main_, index) == WithoutIndex(main_, index)

\* the line is not compared with the locked numbers
MissesLockedNever(nextMain, mainLocked_) == FALSE

\* for (const locked of mainLocked) if (!nextMain.includes(locked)) ...
MissesLocked(nextMain, mainLocked_) ==
    /\ Len(mainLocked_) > 0
    /\ \E k \in DOMAIN mainLocked_ : ~Includes(nextMain, mainLocked_[k])

\* the checks of commitEdit, in their order: the message of the first one that
\* fails, or NoError when the edit is accepted
commitEditError(picks_, mainLocked_, powerballLocked_, editing, editValue) ==
    LET parsed == ParseInt(editValue)
        next == parsed.v[1]
        lineIdx == editing.lineIdx
    IN  IF ~IsFinite(parsed) THEN EnterNumberMessage
        ELSE IF editing.kind = "pb"
        THEN IF next < EditPbMin \/ next > EditPbMax THEN PowerballRangeMessage
             ELSE IF Len(powerballLocked_) > 0 /\ ~Includes(powerballLocked_, next)
             THEN PowerballLockedMessage
             ELSE NoError
        ELSE IF next < EditMainMin \/ next > EditMainMax THEN MainRangeMessage
        ELSE IF lineIdx + 1 \in DOMAIN picks_
        THEN LET otherNums == OtherNums(picks_[lineIdx + 1].main, editing.index)
                 nextMain == SortAsc(Append(otherNums, next))
             IN  IF Includes(otherNums, next) THEN AlreadyInLineMessage
                 ELSE IF MissesLocked(nextMain, mainLocked_)
                 THEN MustIncludeLockedMessage
                 ELSE NoError
        ELSE NoError

\* the line is left in the order the edit gives it
commitEditUpdateNoSort(prev, editing, next) ==
    IF editing.lineIdx + 1 \notin DOMAIN prev THEN prev
    ELSE IF editing.kind = "pb"
    THEN [prev EXCEPT ![editing.lineIdx + 1].powerball = next]
    ELSE [prev EXCEPT ![editing.lineIdx + 1].main[editing.index + 1] = next]

\* the updater passed to setPicks and to setDisplayPicks
commitEditUpdate(prev, editing, next) ==
    IF editing.lineIdx + 1 \notin DOMAIN prev THEN prev
    ELSE IF editing.kind = "pb"
    THEN [prev EXCEPT ![editing.lineIdx + 1].powerball = next]
    ELSE [prev EXCEPT ![editing.lineIdx + 1].main =
                          SortAsc([@ EXCEPT ![editing.index + 1] = next])]

\* newPicks.map((pick) => ({main: pick.main.map(() => null), powerball: null}))
BlankPicks(newPicks) ==
    [k \in DOMAIN newPicks |->
        [main |-> [j \in DOMAIN newPicks[k].main |-> NoValue], powerball |-> NoValue]]

\* useEffect([animatingBalls.size, picks]): displayPicks follows picks while no
\* ball is animating
SyncDisplay(animatingSize, picks_, displayPicks) ==
    IF animatingSize = 0 /\ Len(picks_) > 0 THEN picks_ ELSE displayPicks

\* --- SpecEdit ----------------------------------------------------------------

\* the numbers the lock pickers are clicked on
EditMainButtons == {2, MainMax \div 2}
EditPbButtons == {PbMax}

\* what is typed into the input of the ball being edited: no number, a number
\* below both ranges, numbers of both ranges, a number with a fraction, a
\* main number that is no powerball, and a number above both ranges
EditValues ==
    {Text, Num(RZero), Num(RInt(2)), Num(Rat(2 * EditPbMax + 1, 2)),
     Num(RInt(MainMax \div 2)), Num(RInt(EditMainMax + 1))}

\* the ball of a line that is clicked: the first, the last, or the powerball
EditTargets ==
    {[kind |-> "main", index |-> 0], [kind |-> "main", index |-> MainCount - 1],
     [kind |-> "pb", index |-> NoValue]}

NumLinesInputs == {Text}
RandomnessInputs == {Num(RInt(PctMax + 1))}

\* Math.random() during the call of generatePicks that builds the first picks,
\* and during the call made by a click
MountStreams == {[k \in 1..EntropyLen |-> r] : r \in {RZero, Rat(99, 100)}}
ClickStreams == {[k \in 1..EntropyLen |-> RZero]}

\* the embedded draws, and the draws the API returns
EmbeddedDraws == <<DrawA, DrawC, DrawB>>
LoadedDraws == <<DrawD>>

InitEdit ==
    /\ GenIdle
    /\ draws = EmbeddedDraws
    /\ mainWeights = mainBaseWeights(draws)
    /\ pbWeights = pbBaseWeights(draws)
    /\ pc = "page"
    /\ \E stream \in MountStreams :
          LET first == generatePicks(Num(RInt(InitialNumLines)),
                                     Num(RInt(InitialRandomness)),
                                     Arr(<<>>), Arr(<<>>), mainWeights, pbWeights, stream)
          IN  unit = [fn |-> "App",
                      numLines |-> InitialNumLines, randomness |-> InitialRandomness,
                      mainLocked |-> <<>>, powerballLocked |-> <<>>,
                      mainLockedUiError |-> NoError,
                      picks |-> first, displayPicks |-> first,
                      editing |-> NoEdit, editValue |-> Text, editError |-> NoError,
                      event |-> Event("mount", 0)]

\* the picks are derived again from the settings each time the state changes
HandleRederiving(op, n, u) ==
    /\ unit.fn = "App"
    /\ unit' = [u EXCEPT !.event = Event(op, n),
                         !.picks = generatePicks(Num(RInt(u.numLines)), Num(RInt(u.randomness)),
                                                 Arr(u.mainLocked), Arr(u.powerballLocked),
                                                 mainWeights, pbWeights,
                                                 [k \in 1..EntropyLen |-> RZero])]

\* a handler is called: u is the component state it leaves
Handle(op, n, u) ==
    /\ unit.fn = "App"
    /\ unit' = [u EXCEPT !.event = Event(op, n)]

\* A click outside the input of the ball being edited first takes the focus
\* from it (onBlur is cancelEdit), so the other buttons and fields are reached
\* with no edit session open.

\* onClick of Generate New Picks, with the effect that follows its render
\* (animatingBalls is empty and picks changed, so displayPicks becomes picks);
\* the timers of the ball animation it schedules are those of SpecAnim
Generate ==
    /\ unit.editing = NoEdit
    /\ \E stream \in ClickStreams :
          IF lockedError(unit.mainLocked) # NoError
          THEN Handle("generate", 0, unit)
          ELSE LET newPicks == generatePicks(Num(RInt(unit.numLines)),
                                             Num(RInt(unit.randomness)),
                                             Arr(unit.mainLocked),
                                             Arr(unit.powerballLocked),
                                             mainWeights, pbWeights, stream)
               IN  Handle("generate", 0,
                          [unit EXCEPT !.editing = NoEdit, !.editValue = Text,
                                       !.editError = NoError,
                                       !.picks = newPicks,
                                       !.displayPicks =
                                           SyncDisplay(0, newPicks, BlankPicks(newPicks))])
    /\ UNCHANGED <<tables, genArgs, genLocals, rng>>

\* onClick of a ball of one of the lines shown
BeginEdit ==
    /\ unit.editing = NoEdit
    /\ \E line \in DOMAIN unit.displayPicks, target \in EditTargets :
          /\ line = Len(unit.displayPicks)
          /\ LET current == IF target.kind = "pb"
                            THEN unit.picks[line].powerball
                            ELSE unit.picks[line].main[target.index + 1]
             IN  Handle("beginEdit", line - 1,
                        [unit EXCEPT !.editError = NoError,
                                     !.editing = [lineIdx |-> line - 1,
                                                  kind |-> target.kind,
                                                  index |-> target.index],
                                     !.editValue = Num(RInt(current))])
    /\ UNCHANGED <<tables, genArgs, genLocals, rng>>

\* onChange of the input
SetEditValue ==
    /\ unit.editing # NoEdit
    /\ \E value \in EditValues :
          /\ value # unit.editValue
          /\ Handle("setEditValue", 0, [unit EXCEPT !.editValue = value])
    /\ UNCHANGED <<tables, genArgs, genLocals, rng>>

\* Escape, or the input losing focus
CancelEdit ==
    /\ unit.editing # NoEdit
    /\ Handle("cancelEdit", 0,
              [unit EXCEPT !.editing = NoEdit, !.editValue = Text,
                           !.editError = NoError])
    /\ UNCHANGED <<tables, genArgs, genLocals, rng>>

\* Enter in the input
CommitEdit ==
    /\ unit.editing # NoEdit
    /\ LET error == commitEditError(unit.picks, unit.mainLocked, unit.powerballLocked,
                                    unit.editing, unit.editValue)
           next == ParseInt(unit.editValue).v[1]
           newPicks == commitEditUpdate(unit.picks, unit.editing, next)
           newDisplay == commitEditUpdate(unit.displayPicks, unit.editing, next)
       IN  IF error # NoError
           THEN Handle("commitEdit", 0, [unit EXCEPT !.editError = error])
           ELSE Handle("commitEdit", 1,
                       [unit EXCEPT !.picks = newPicks,
                                    !.displayPicks = SyncDisplay(0, newPicks, newDisplay),
                                    !.editing = NoEdit, !.editValue = Text,
                                    !.editError = NoError])
    /\ UNCHANGED <<tables, genArgs, genLocals, rng>>

EditToggleMainLocked ==
    /\ unit.editing = NoEdit
    /\ \E n \in EditMainButtons :
          LET next == toggleMainLockedUpdate(unit.mainLocked, n)
          IN  Handle("toggleMainLocked", n,
                     [unit EXCEPT !.mainLocked = next[1], !.mainLockedUiError = next[2]])
    /\ UNCHANGED <<tables, genArgs, genLocals, rng>>

EditTogglePowerballLocked ==
    /\ unit.editing = NoEdit
    /\ \E n \in EditPbButtons :
          Handle("togglePowerballLocked", n,
                 [unit EXCEPT !.powerballLocked =
                                  SortAsc(toggleInSet(unit.powerballLocked, n))])
    /\ UNCHANGED <<tables, genArgs, genLocals, rng>>

EditClearLocked ==
    /\ unit.editing = NoEdit
    /\ \/ /\ Len(unit.mainLocked) > 0
          /\ Handle("clearMainLocked", 0, [unit EXCEPT !.mainLocked = <<>>])
       \/ /\ Len(unit.powerballLocked) > 0
          /\ Handle("clearPowerballLocked", 0, [unit EXCEPT !.powerballLocked = <<>>])
    /\ UNCHANGED <<tables, genArgs, genLocals, rng>>

\* onChange of the number of lines and of the randomness slider
SetNumLines ==
    /\ unit.editing = NoEdit
    /\ \E value \in NumLinesInputs :
          /\ clampInt(value, CountMin, CountMax) # unit.numLines
          /\ Handle("setNumLines", 0,
                    [unit EXCEPT !.numLines = clampInt(value, CountMin, CountMax)])
    /\ UNCHANGED <<tables, genArgs, genLocals, rng>>

SetRandomness ==
    /\ unit.editing = NoEdit
    /\ \E value \in RandomnessInputs :
          /\ clampInt(value, PctMin, PctMax) # unit.randomness
          /\ Handle("setRandomness", 0,
                    [unit EXCEPT !.randomness = clampInt(value, PctMin, PctMax)])
    /\ UNCHANGED <<tables, genArgs, genLocals, rng>>

\* the fetch of /api/powerball/draws resolves with a non-empty list
LoadDraws ==
    /\ draws = EmbeddedDraws
    /\ draws' = LoadedDraws
    /\ mainWeights' = mainBaseWeights(LoadedDraws)
    /\ pbWeights' = pbBaseWeights(LoadedDraws)
    /\ Handle("setDraws", 0, unit)
    /\ UNCHANGED <<genArgs, genLocals, rng>>

NextEdit ==
    \/ Generate \/ BeginEdit \/ SetEditValue \/ CancelEdit \/ CommitEdit
    \/ EditToggleMainLocked \/ EditTogglePowerballLocked \/ EditClearLocked

SpecEdit == InitEdit /\ [][NextEdit]_vars

\* --- SpecSettings: the settings, the draw data and Generate, no edit session --

NextSettings ==
    \/ Generate \/ EditToggleMainLocked \/ EditTogglePowerballLocked \/ EditClearLocked
    \/ SetNumLines \/ SetRandomness \/ LoadDraws

SpecSettings == InitEdit /\ [][NextSettings]_vars

\* C22: every pick of the picks state has 5 distinct main numbers of [1,69]
\* in ascending order and a powerball of [1,26], after any sequence of
\* Generate, beginEdit, commitEdit and cancelEdit (and of lock changes).
C22_EditsKeepPicksValid ==
    unit.fn = "App" => \A k \in DOMAIN unit.picks : ValidPick(unit.picks[k])

\* an accepted edit has put a number no generation produced into the last line
C22_Witness ==
    /\ unit.fn = "App"
    /\ unit.event = Event("commitEdit", 1)
    /\ Includes(unit.picks[Len(unit.picks)].main, EditPbMax)
    /\ unit.picks[Len(unit.picks)].powerball = 2

\* the reasons for which an edit is to be refused, as the page states them
EditRefused(u) ==
    LET parsed == ParseInt(u.editValue)
        next == parsed.v[1]
        line == u.picks[u.editing.lineIdx + 1].main
        others == {line[k] : k \in DOMAIN line \ {u.editing.index + 1}}
    IN  \/ parsed.t # "num"
        \/ u.editing.kind = "pb" /\ next \notin 1..26
        \/ u.editing.kind = "pb" /\ u.powerballLocked # <<>>
               /\ next \notin Range(u.powerballLocked)
        \/ u.editing.kind = "main" /\ next \notin 1..69
        \/ u.editing.kind = "main" /\ next \in others
        \/ u.editing.kind = "main"
               /\ ~(Range(u.mainLocked) \subseteq others \cup {next})

\* C23: a commitEdit that is to be refused leaves picks and displayPicks as
\* they were, sets editError and keeps the edit session; an accepted edit of
\* a main number leaves its line containing every number of mainLocked.
C23_RejectedEditChangesNothing ==
    [][(unit.fn = "App" /\ unit'.event.op = "commitEdit") =>
          /\ EditRefused(unit) =>
                 /\ unit'.picks = unit.picks
                 /\ unit'.displayPicks = unit.displayPicks
                 /\ unit'.editError # NoError
                 /\ unit'.editing = unit.editing
          /\ (~EditRefused(unit) /\ unit.editing.kind = "main") =>
                 /\ unit'.editing = NoEdit
                 /\ Range(unit.mainLocked)
                        \subseteq Range(unit'.picks[unit.editing.lineIdx + 1].main)]_vars

\* the edit of a locked number into another number has been refused
C23_Witness ==
    /\ unit.fn = "App"
    /\ unit.event = Event("commitEdit", 0)
    /\ unit.editError = MustIncludeLockedMessage
    /\ unit.editing.kind = "main"
    /\ Includes(unit.mainLocked, unit.picks[unit.editing.lineIdx + 1].main[unit.editing.index + 1])

\* the events that change a setting or the draw data
SettingEvents ==
    {"setNumLines", "setRandomness", "toggleMainLocked", "togglePowerballLocked",
     "clearMainLocked", "clearPowerballLocked", "setDraws"}

\* C25: a change of a setting (number of lines, randomness, main locked,
\* powerball locked) and the arrival of loaded draw data leave picks as they
\* were; picks change only by a click on Generate or an accepted commitEdit.
C25_SettingsKeepPicks ==
    [][unit.fn = "App" =>
          /\ unit'.event.op \in SettingEvents => unit'.picks = unit.picks
          /\ unit'.picks # unit.picks =>
                 \/ unit'.event.op = "generate"
                 \/ unit'.event = Event("commitEdit", 1)]_vars

\* every setting and the draw data differ from those the picks were made with
C25_Witness ==
    /\ unit.fn = "App"
    /\ unit.event.op \in SettingEvents
    /\ draws = LoadedDraws
    /\ unit.numLines = 1 /\ Len(unit.picks) = InitialNumLines
    /\ unit.randomness # InitialRandomness
    /\ unit.mainLocked # <<>> /\ unit.powerballLocked # <<>>
    /\ \A k \in DOMAIN unit.picks :
           /\ ~(Range(unit.mainLocked) \subseteq Range(unit.picks[k].main))
           /\ ~Includes(unit.powerballLocked, unit.picks[k].powerball)

\* --- SpecAnim: Generate clicks and the timers of the ball animation -----------

\* const spinDuration = 800 + Math.random() * 400, in milliseconds
SpinMin == 800
SpinSpread == 400
\* the delays of the setTimeout calls that start the balls of a line
LineDelay == 100
BallDelay == 150
PbExtraDelay == 100

\* how many times Generate is clicked, the time between two clicks and the
\* resolution of the clock, in milliseconds (every delay and every bound of a
\* duration is a multiple of it)
MaxClicks == 2
ClickGaps == {100}
ClockStep == LineDelay \div 2

\* Math.random() of a tick of the spin, and the streams of the clicks
SpinRandoms == {Rat(1, 2)}
AnimStreams == {[k \in 1..EntropyLen |-> r] : r \in {RZero, Rat(99, 100)}}

\* the balls animateBall is scheduled for: <<pickIdx, ballIdx, isPowerball>>
BallKeys(newPicks) ==
    UNION {{<<p - 1, b - 1, FALSE>> : b \in DOMAIN newPicks[p].main} \cup {<<p - 1, 0, TRUE>>} :
              p \in DOMAIN newPicks}

\* the delay of the setTimeout that starts a ball
StartDelay(newPicks, key) ==
    IF key[3]
    THEN key[1] * LineDelay + Len(newPicks[key[1] + 1].main) * BallDelay + PbExtraDelay
    ELSE key[1] * LineDelay + key[2] * BallDelay

\* finalValue of the ball
FinalValue(newPicks, key) ==
    IF key[3] THEN newPicks[key[1] + 1].powerball ELSE newPicks[key[1] + 1].main[key[2] + 1]

\* Math.floor(Math.random() * range) + 1
SpinValue(key, r) == RTrunc(RMul(r, RInt(IF key[3] THEN PbMax ELSE MainMax))) + 1

\* the updater of setDisplayPicks in a tick: prev.map(...) with one ball replaced
WriteBall(prev, key, value) ==
    [p \in DOMAIN prev |->
        IF p # key[1] + 1 THEN prev[p]
        ELSE IF key[3] THEN [prev[p] EXCEPT !.powerball = value]
        ELSE IF key[2] + 1 \in DOMAIN prev[p].main
        THEN [prev[p] EXCEPT !.main[key[2] + 1] = value]
        ELSE prev[p]]

\* the effect runs after a render in which animatingBalls.size or picks changed
AfterRender(depsChanged, animatingSize, picks_, displayPicks) ==
    IF depsChanged THEN SyncDisplay(animatingSize, picks_, displayPicks) ELSE displayPicks

\* the time at which the setTimeout of a ball of the click g is due, and the
\* earliest and the latest time of the last tick of its interval
StartsAt(timers, g, key) == timers[g].at + StartDelay(timers[g].final, key)
EndsFrom(timers, g, key) == StartsAt(timers, g, key) + SpinMin
EndsBy(timers, g, key) == StartsAt(timers, g, key) + SpinMin + SpinSpread

\* no ball is animating and no timer of any click is pending
AnimationAtRest(u) ==
    /\ u.animatingBalls = {}
    /\ \A g \in DOMAIN u.timers : \A key \in DOMAIN u.timers[g].state :
          u.timers[g].state[key] = "done"

\* the page after its first render and its effect, with one line asked for
InitAnim ==
    /\ GenIdle
    /\ draws = EmbeddedDraws
    /\ mainWeights = mainBaseWeights(draws)
    /\ pbWeights = pbBaseWeights(draws)
    /\ pc = "page"
    /\ \E stream \in AnimStreams :
          LET first == generatePicks(Num(RInt(InitialNumLines)),
                                     Num(RInt(InitialRandomness)),
                                     Arr(<<>>), Arr(<<>>), mainWeights, pbWeights, stream)
          IN  unit = [fn |-> "anim", numLines |-> CountMin,
                      picks |-> first, displayPicks |-> first,
                      animatingBalls |-> {}, timers |-> <<>>, now |-> 0,
                      event |-> Event("mount", 0)]

\* onClick of Generate New Picks: the new picks, the emptied set of animating
\* balls, the blank display, one setTimeout for each ball, then the effect
AnimGenerate ==
    /\ unit.fn = "anim"
    /\ Len(unit.timers) < MaxClicks
    /\ unit.timers # <<>> => unit.now - unit.timers[Len(unit.timers)].at \in ClickGaps
    /\ \E stream \in AnimStreams :
          LET newPicks == generatePicks(Num(RInt(unit.numLines)),
                                        Num(RInt(InitialRandomness)),
                                        Arr(<<>>), Arr(<<>>), mainWeights, pbWeights, stream)
          IN  unit' = [unit EXCEPT
                          !.picks = newPicks,
                          !.animatingBalls = {},
                          !.displayPicks = AfterRender(TRUE, 0, newPicks, BlankPicks(newPicks)),
                          !.timers = Append(@, [at |-> unit.now, final |-> newPicks,
                                                state |-> [key \in BallKeys(newPicks) |-> "pending"]]),
                          !.event = Event("generate", Len(unit.timers) + 1)]
    /\ UNCHANGED <<tables, genArgs, genLocals, rng>>

\* a setTimeout fires: animateBall adds the ball's key and starts its interval
StartBall ==
    /\ unit.fn = "anim"
    /\ \E g \in DOMAIN unit.timers : \E key \in DOMAIN unit.timers[g].state :
          /\ unit.timers[g].state[key] = "pending"
          /\ StartsAt(unit.timers, g, key) <= unit.now
          /\ LET animating == unit.animatingBalls \cup {key}
             IN  unit' = [unit EXCEPT
                             !.animatingBalls = animating,
                             !.timers[g].state[key] = "spinning",
                             !.displayPicks =
                                 AfterRender(Cardinality(animating) # Cardinality(unit.animatingBalls),
                                             Cardinality(animating), unit.picks, @),
                             !.event = Event("startBall", g)]
    /\ UNCHANGED <<tables, genArgs, genLocals, rng>>

\* a tick of an interval before its last one: a random number is shown
SpinBall ==
    /\ unit.fn = "anim"
    /\ \E g \in DOMAIN unit.timers : \E key \in DOMAIN unit.timers[g].state :
          /\ unit.timers[g].state[key] = "spinning"
          /\ \E r \in SpinRandoms :
                unit' = [unit EXCEPT
                            !.displayPicks = WriteBall(@, key, SpinValue(key, r)),
                            !.event = Event("spinBall", g)]
    /\ UNCHANGED <<tables, genArgs, genLocals, rng>>

\* the last tick of an interval: clearInterval, the final value is shown and
\* the ball's key is deleted from animatingBalls, then the effect
FinishBall ==
    /\ unit.fn = "anim"
    /\ \E g \in DOMAIN unit.timers : \E key \in DOMAIN unit.timers[g].state :
          /\ unit.timers[g].state[key] = "spinning"
          /\ EndsFrom(unit.timers, g, key) <= unit.now
          /\ \E r \in SpinRandoms :
                LET animating == unit.animatingBalls \ {key}
                    shown == WriteBall(WriteBall(unit.displayPicks, key, SpinValue(key, r)),
                                       key, FinalValue(unit.timers[g].final, key))
                IN  unit' = [unit EXCEPT
                                !.animatingBalls = animating,
                                !.timers[g].state[key] = "done",
                                !.displayPicks =
                                    AfterRender(Cardinality(animating) # Cardinality(unit.animatingBalls),
                                                Cardinality(animating), unit.picks, shown),
                                !.event = Event("finishBall", g)]
    /\ UNCHANGED <<tables, genArgs, genLocals, rng>>

\* time passes while some timer is pending and none is overdue
Advance ==
    /\ unit.fn = "anim"
    /\ ~AnimationAtRest(unit)
    /\ \A g \in DOMAIN unit.timers : \A key \in DOMAIN unit.timers[g].state :
          /\ unit.timers[g].state[key] = "pending" => StartsAt(unit.timers, g, key) > unit.now
          /\ unit.timers[g].state[key] = "spinning" => EndsBy(unit.timers, g, key) > unit.now
    /\ unit' = [unit EXCEPT !.now = @ + ClockStep, !.event = Event("advance", 0)]
    /\ UNCHANGED <<tables, genArgs, genLocals, rng>>

NextAnim == AnimGenerate \/ StartBall \/ SpinBall \/ FinishBall \/ Advance

SpecAnim == InitAnim /\ [][NextAnim]_vars

\* C26: whenever no ball is animating and no timer started by a Generate click
\* is pending, displayPicks equals picks, for every interleaving of the
\* timers, a click on Generate during an earlier animation included.
C26_DisplayFollowsPicks ==
    (unit.fn = "anim" /\ AnimationAtRest(unit)) => unit.displayPicks = unit.picks

\* ------------------------------------------------------------------------
\* The worker (workers/powerball-sync/src/index.js): POST /api/powerball/sync
\* ------------------------------------------------------------------------

\* null or undefined: no such header, query parameter, secret or KV key
Missing == "null"

\* !value, for a string or null
Falsy(value) == value \in {Missing, ""}

\* a || b, for strings or null
OrElse(a, b) == IF Falsy(a) THEN b ELSE a

\* the spellings of the scheme /^Bearer\s+(.+)$/i accepts
BearerSchemes == {"Bearer", "bearer", "BEARER"}

\* An Authorization header, as its scheme and what follows the blanks after it
Authorization(scheme, rest) == [scheme |-> scheme, rest |-> rest]

\* request.headers.get("Authorization") || "" when the header is not sent
NoAuthorization == Authorization("", "")

\* getBearerToken(request)
getBearerToken(request) ==
    IF request.authorization.scheme \in BearerSchemes /\ request.authorization.rest # ""
    THEN request.authorization.rest
    ELSE Missing

\* the query parameter is looked at first and the Authorization header last
providedTokenQueryFirst(request) ==
    OrElse(OrElse(request.queryToken, request.xSyncToken), getBearerToken(request))

\* getBearerToken(request) || request.headers.get("x-sync-token") || url.searchParams.get("token")
providedToken(request) ==
    OrElse(OrElse(getBearerToken(request), request.xSyncToken), request.queryToken)

\* The status the sync route answers with before it calls syncLatestDraws, or
\* 0 when it goes on to call it
syncGate(request, configuredToken) ==
    IF request.method # "POST" THEN 405
    ELSE IF Falsy(configuredToken) THEN 500
    ELSE IF Falsy(providedToken(request)) \/ providedToken(request) # configuredToken THEN 401
    ELSE 0

\* a draw of the stored list or of powerball.com; drawDate is a day or NoValue
SyncDraw(drawDate, numbers, pb) ==
    [drawDate |-> drawDate, main |-> numbers, powerball |-> pb, multiplier |-> 2]

\* no draw: draws[0] of an empty list, or powerball.com could not be read
NoDraw == [drawDate |-> NoValue, main |-> <<>>, powerball |-> NoValue, multiplier |-> NoValue]

\* the place of a number in the order of Array.prototype.sort() without a
\* comparator, which compares the decimal texts: "12" < "5" < "51"
TextRank(n) == IF n < 10 THEN n * 11 ELSE (n \div 10) * 11 + (n % 10) + 1

RECURSIVE InsertByText(_, _)
InsertByText(s, v) ==
    IF s = <<>> THEN <<v>>
    ELSE IF TextRank(v) < TextRank(Head(s)) THEN <<v>> \o s
    ELSE <<Head(s)>> \o InsertByText(Tail(s), v)

RECURSIVE TextSort(_)
\* array.sort()
TextSort(s) == IF s = <<>> THEN <<>> ELSE InsertByText(TextSort(Tail(s)), Head(s))

\* powerballComDraw && powerballComDraw.main && powerballComDraw.main.length === 5
Usable(scraped) == scraped # NoDraw /\ Len(scraped.main) = 5

\* draws.length > 0 ? draws[0] : null
LatestOf(list) == IF Len(list) > 0 THEN list[1] ELSE NoDraw

\* the evaluation of isNewer reaches the comparison of the numbers, which
\* sorts both arrays in place
NumbersCompared(latest, scraped) ==
    /\ latest.drawDate # NoValue
    /\ ~(scraped.drawDate # NoValue /\ scraped.drawDate > latest.drawDate)
    /\ scraped.drawDate = latest.drawDate

\* isNewer
isNewer(latest, scraped) ==
    \/ latest.drawDate = NoValue
    \/ scraped.drawDate # NoValue /\ scraped.drawDate > latest.drawDate
    \/ /\ scraped.drawDate = latest.drawDate
       /\ \/ latest = NoDraw
          \/ TextSort(latest.main) # TextSort(scraped.main)
          \/ latest.powerball # scraped.powerball

\* One of the two blocks that compare the draw of powerball.com with draws[0]
\* and prepend it: the list and the scraped draw it leaves, and whether it
\* prepended
PrependBlock(list, scraped) ==
    IF ~Usable(scraped) THEN [draws |-> list, scraped |-> scraped, prepended |-> FALSE]
    ELSE LET latest == LatestOf(list)
             compared == NumbersCompared(latest, scraped)
             newer == isNewer(latest, scraped)
             seen == IF compared THEN [scraped EXCEPT !.main = TextSort(@)] ELSE scraped
             kept == IF compared THEN [list EXCEPT ![1].main = TextSort(@)] ELSE list
         IN  [draws |-> IF newer THEN <<seen>> \o kept ELSE kept,
              scraped |-> seen, prepended |-> newer]

\* the answers of the upstream JSON source: not modified, a failure, or rows
NotModified == [status |-> 304, rows |-> <<>>, etag |-> Missing]
UpstreamDown == [status |-> 503, rows |-> <<>>, etag |-> Missing]
Rows(list, etag) == [status |-> 200, rows |-> list, etag |-> etag]

\* no value under the key of the draws, of the meta data and of the jackpot
NoStored == [draws |-> <<>>, updatedAt |-> 0]
NoJackpot == [amount |-> 0, updatedAt |-> 0]
NoMeta == [etag |-> Missing, lastDrawDate |-> NoValue, lastCheckedAt |-> 0, drawCount |-> NoValue]

\* syncLatestDraws(env): whether it threw, the KV it leaves and what it returns
syncLatestDraws(kv, upstream, fromPowerballCom, now) ==
    LET lastDrawDate == kv.meta.lastDrawDate
        jsonUpdated == upstream.status # 304
        loaded == IF upstream.status = 304
                  THEN kv.stored.draws
                  ELSE upstream.rows
        first == PrependBlock(loaded, fromPowerballCom)
        second == PrependBlock(first.draws, first.scraped)
        wasUpdated == jsonUpdated \/ second.prepended
        draws_ == second.draws
        latestDrawDate == LatestOf(draws_).drawDate
        newEtag == IF jsonUpdated THEN upstream.etag ELSE kv.meta.etag
    IN  IF upstream.status \notin {304, 200}
        THEN [threw |-> TRUE, kv |-> kv, updated |-> FALSE, drawCount |-> 0]
        ELSE [threw |-> FALSE,
              kv |-> IF wasUpdated \/ latestDrawDate # lastDrawDate
                     THEN [kv EXCEPT !.stored = [draws |-> draws_, updatedAt |-> now],
                                     !.meta = [etag |-> newEtag, lastDrawDate |-> latestDrawDate,
                                               lastCheckedAt |-> now, drawCount |-> Len(draws_)]]
                     ELSE [kv EXCEPT !.meta.lastCheckedAt = now],
              updated |-> wasUpdated,
              drawCount |-> Len(draws_)]

\* fetchJackpot(env): the amount read from powerball.com is stored when it is
\* a positive number
fetchJackpot(kv, amount, now) ==
    IF amount > 0 THEN [kv EXCEPT !.jackpot = [amount |-> amount, updatedAt |-> now]] ELSE kv

\* --- SpecSync ----------------------------------------------------------------

\* how many times syncLatestDraws is entered
MaxSyncs == 2

SyncSecret == "s3cret"
ConfiguredTokens == {Missing, "", SyncSecret}

Request(method, authorization, xSyncToken, queryToken) ==
    [method |-> method, authorization |-> authorization, xSyncToken |-> xSyncToken,
     queryToken |-> queryToken]

\* the requests sent to /api/powerball/sync
SyncRequests ==
    {Request("GET", Authorization("Bearer", SyncSecret), Missing, Missing),
     Request("POST", NoAuthorization, Missing, Missing),
     Request("POST", Authorization("Bearer", SyncSecret), Missing, Missing),
     Request("POST", Authorization("bearer", SyncSecret), "guess", "guess"),
     Request("POST", Authorization("Basic", SyncSecret), SyncSecret, Missing),
     Request("POST", Authorization("Basic", SyncSecret), Missing, Missing),
     Request("POST", Authorization("Bearer", "guess"), SyncSecret, SyncSecret),
     Request("POST", Authorization("Bearer", ""), "", SyncSecret),
     Request("POST", NoAuthorization, "guess", SyncSecret),
     Request("POST", NoAuthorization, Missing, "guess")}

NumbersA == <<5, 12, 23, 40, 61>>
NumbersB == <<5, 12, 23, 40, 62>>

\* the draws powerball.com shows: none, a draw of day 2, one of day 1, the
\* draw of day 1 with another powerball, one without a date and one that
\* lacks a number
Scrapes ==
    {NoDraw, SyncDraw(2, NumbersB, 9), SyncDraw(1, NumbersA, 7), SyncDraw(1, NumbersA, 8),
     SyncDraw(NoValue, NumbersA, 7), SyncDraw(2, <<5, 12, 23, 40>>, 9)}

\* the rows of the upstream source after normalizeSocrataRowsJson (newest first)
Upstreams ==
    {NotModified, UpstreamDown, Rows(<<>>, "v0"), Rows(<<SyncDraw(1, NumbersA, 7)>>, "v1"),
     Rows(<<SyncDraw(NoValue, NumbersB, 9)>>, "v2")}

JackpotAmounts == {0, 20}

\* what the sources answer while the route is exercised
RouteUpstreams == {UpstreamDown, Rows(<<SyncDraw(1, NumbersA, 7)>>, "v1")}
RouteScrapes == {NoDraw, SyncDraw(2, NumbersB, 9)}
RouteJackpots == {0, 20}

EmptyKv == [stored |-> NoStored, meta |-> NoMeta, jackpot |-> NoJackpot]

\* no request: the worker was started by the cron trigger
NoRequest == Request("", NoAuthorization, Missing, Missing)
NoCall == [request |-> NoRequest, upstream |-> NotModified, scraped |-> NoDraw]

\* the worker with an empty KV namespace, no D1 database bound
InitSync ==
    /\ GenIdle
    /\ draws = <<>>
    /\ mainWeights = mainBaseWeights(draws)
    /\ pbWeights = pbBaseWeights(draws)
    /\ pc = "worker"
    /\ \E token \in ConfiguredTokens :
          unit = [fn |-> "worker", token |-> token, kv |-> EmptyKv, now |-> 0,
                  call |-> NoCall, status |-> 0, updated |-> FALSE, drawCount |-> 0,
                  event |-> Event("deploy", 0)]

\* fetch(request, env) for the path /api/powerball/sync, refused
SyncRefused ==
    /\ unit.fn = "worker"
    /\ \E request \in SyncRequests :
          /\ syncGate(request, unit.token) # 0
          /\ unit' = [unit EXCEPT !.call = [NoCall EXCEPT !.request = request],
                                  !.status = syncGate(request, unit.token),
                                  !.updated = FALSE, !.drawCount = 0,
                                  !.event = Event("sync", 0)]
    /\ UNCHANGED <<tables, genArgs, genLocals, rng>>

\* fetch(request, env) for the path /api/powerball/sync, let through:
\* syncLatestDraws, then fetchJackpot when it did not throw
SyncRun ==
    /\ unit.fn = "worker"
    /\ unit.now < MaxSyncs
    /\ \E request \in SyncRequests, upstream \in RouteUpstreams, scraped \in RouteScrapes,
          amount \in RouteJackpots :
          /\ syncGate(request, unit.token) = 0
          /\ LET run == syncLatestDraws(unit.kv, upstream, scraped, unit.now + 1)
             IN  unit' = [unit EXCEPT
                             !.now = @ + 1,
                             !.call = [request |-> request, upstream |-> upstream,
                                       scraped |-> scraped],
                             !.kv = IF run.threw THEN run.kv
                                    ELSE fetchJackpot(run.kv, amount, unit.now + 1),
                             !.status = IF run.threw THEN 502 ELSE 200,
                             !.updated = run.updated, !.drawCount = run.drawCount,
                             !.event = Event("sync", 1)]
    /\ UNCHANGED <<tables, genArgs, genLocals, rng>>

NextSync == SyncRefused \/ SyncRun

SpecSync == InitSync /\ [][NextSync]_vars

\* --- SpecCron: the runs of syncLatestDraws started by the cron trigger ---------

\* scheduled(_event, env, ctx): syncLatestDraws and fetchJackpot; the source
\* answers 304 only to a request that carried an ETag
Scheduled ==
    /\ unit.fn = "worker"
    /\ unit.now < MaxSyncs
    /\ \E upstream \in Upstreams, scraped \in Scrapes, amount \in JackpotAmounts :
          /\ upstream.status = 304 => unit.kv.meta.etag # Missing
          /\ LET run == syncLatestDraws(unit.kv, upstream, scraped, unit.now + 1)
             IN  unit' = [unit EXCEPT
                             !.now = @ + 1,
                             !.call = [request |-> NoRequest, upstream |-> upstream,
                                       scraped |-> scraped],
                             !.kv = fetchJackpot(run.kv, amount, unit.now + 1),
                             !.status = IF run.threw THEN 502 ELSE 200,
                             !.updated = run.updated, !.drawCount = run.drawCount,
                             !.event = Event("scheduled", 1)]
    /\ UNCHANGED <<tables, genArgs, genLocals, rng>>

NextCron == Scheduled

SpecCron == InitSync /\ [][NextCron]_vars

\* the reading of the sentence on the token: the first that is present of the
\* Bearer header, the x-sync-token header and the token query parameter
ClaimedToken(request) ==
    IF request.authorization.scheme \in BearerSchemes /\ request.authorization.rest # ""
    THEN request.authorization.rest
    ELSE IF request.xSyncToken \notin {Missing, ""} THEN request.xSyncToken
    ELSE request.queryToken

\* C27: the sync route runs syncLatestDraws only for a POST, with
\* POWERBALL_SYNC_TOKEN configured, whose token (Bearer header, else
\* x-sync-token header, else token query parameter) equals it; otherwise it
\* leaves KV unchanged and answers 405 to a method other than POST, 500 when no
\* token is configured, 401 for a missing or different token, in that order.
C27_SyncNeedsToken ==
    [][(unit.fn = "worker" /\ unit'.event.op = "sync") =>
          LET request == unit'.call.request
              configured == unit.token \notin {Missing, ""}
              allowed == /\ request.method = "POST"
                         /\ configured
                         /\ ClaimedToken(request) = unit.token
          IN  /\ unit'.event.n = 1 <=> allowed
              /\ allowed => unit'.now = unit.now + 1 /\ unit'.status \in {200, 502}
              /\ ~allowed =>
                     /\ unit'.kv = unit.kv
                     /\ unit'.status = IF request.method # "POST" THEN 405
                                       ELSE IF ~configured THEN 500 ELSE 401]_vars

\* a request with a wrong Bearer token and the right token in the other two
\* places has been answered 401, the KV holding the draws of an earlier sync
C27_Witness ==
    /\ unit.fn = "worker"
    /\ unit.event = Event("sync", 0)
    /\ unit.status = 401
    /\ unit.token = SyncSecret
    /\ unit.call.request.xSyncToken = SyncSecret
    /\ unit.call.request.queryToken = SyncSecret
    /\ Len(unit.kv.stored.draws) > 0

\* the list syncLatestDraws starts from: the stored one after a 304, the
\* downloaded rows otherwise
StartingList(u, call) ==
    IF call.upstream.status = 304 THEN u.kv.stored.draws ELSE call.upstream.rows

\* C28: syncLatestDraws returns updated: true whenever the draw of
\* powerball.com was prepended or the upstream JSON was downloaded again,
\* and updated: false only when nothing was added or replaced.
C28_UpdatedWhenPrepended ==
    [][(unit.fn = "worker" /\ unit'.event.op = "scheduled" /\ unit'.status = 200) =>
          LET loaded == StartingList(unit, unit'.call)
          IN  /\ (unit'.drawCount > Len(loaded) \/ unit'.call.upstream.status = 200)
                     => unit'.updated
              /\ ~unit'.updated => unit'.kv.stored = unit.kv.stored]_vars

\* two entries of the list are the same draw
HasDuplicate(list) ==
    \E j, k \in DOMAIN list :
        /\ j < k
        /\ list[j].drawDate = list[k].drawDate
        /\ Range(list[j].main) = Range(list[k].main)
        /\ list[j].powerball = list[k].powerball

\* C29: one run of syncLatestDraws prepends the draw of powerball.com at most
\* once, whatever the list before (empty, or with a first entry that has no
\* drawDate) and the scraped draw (with or without a drawDate); after any
\* sequence of syncs the stored list holds no draw twice.
C29_PrependedAtMostOnce ==
    [][(unit.fn = "worker" /\ unit'.event.op = "scheduled" /\ unit'.status = 200) =>
          /\ unit'.drawCount <= Len(StartingList(unit, unit'.call)) + 1
          /\ ~HasDuplicate(unit'.kv.stored.draws)]_vars

\* --- SpecCounter: POST /api/powerball/counter/increment -----------------------

\* how many requests are sent
MaxRequests == 3

\* body.count of the requests: nothing, text, 0, a negative number, a number
\* with a fraction, and the numbers of lines the page sends
CounterBodies ==
    {Undefined, Text, Num(RZero), Num(RInt(0 - 4)), Num(Rat(5, 2)), Num(RInt(1)), Num(RInt(5))}

\* Math.floor, of a rational
RFloor(x) == x[1] \div x[2]

\* Math.max(1, Math.floor(Number(body.count) || 1)), for a count that is not
\* Infinity
incrementBy(bodyCount) ==
    LET number == ToNumber(bodyCount)
        orOne == IF number.t = "num" /\ number.v # RZero THEN number.v ELSE ROne
        floor == IF number.t = "ninf" THEN 0 ELSE RFloor(orOne)
    IN  IF floor < 1 THEN 1 ELSE floor

\* current?.count ?? 0, NoValue standing for a key that holds nothing
currentCount(current) == IF current = NoValue THEN 0 ELSE current

\* the counter before the requests: no value under the key, or a count
InitialCounters == {NoValue, 7}

InitCounter ==
    /\ GenIdle
    /\ draws = <<>>
    /\ mainWeights = mainBaseWeights(draws)
    /\ pbWeights = pbBaseWeights(draws)
    /\ pc = "worker"
    /\ \E initial \in InitialCounters :
          unit = [fn |-> "counter", initial |-> initial, counter |-> initial,
                  requests |-> <<>>, event |-> Event("deploy", 0)]

\* a request arrives: request.json() and incrementBy, up to the first await on KV
CounterReceive ==
    /\ unit.fn = "counter"
    /\ Len(unit.requests) < MaxRequests
    /\ \E bodyCount \in CounterBodies :
          unit' = [unit EXCEPT
                      !.requests = Append(@, [incrementBy |-> incrementBy(bodyCount),
                                              at |-> "get", currentCount |-> 0,
                                              newCount |-> 0]),
                      !.event = Event("receive", Len(unit.requests) + 1)]
    /\ UNCHANGED <<tables, genArgs, genLocals, rng>>

\* env.POWERBALL_KV.get(KV_COUNTER_KEY, "json") of a request resolves
CounterGet ==
    /\ unit.fn = "counter"
    /\ \E k \in DOMAIN unit.requests :
          /\ unit.requests[k].at = "get"
          /\ unit' = [unit EXCEPT
                         !.requests[k].currentCount = currentCount(unit.counter),
                         !.requests[k].newCount =
                             currentCount(unit.counter) + unit.requests[k].incrementBy,
                         !.requests[k].at = "put",
                         !.event = Event("get", k)]
    /\ UNCHANGED <<tables, genArgs, genLocals, rng>>

\* env.POWERBALL_KV.put(KV_COUNTER_KEY, ...) of a request resolves and the
\* request is answered
CounterPut ==
    /\ unit.fn = "counter"
    /\ \E k \in DOMAIN unit.requests :
          /\ unit.requests[k].at = "put"
          /\ unit' = [unit EXCEPT
                         !.counter = unit.requests[k].newCount,
                         !.requests[k].at = "done",
                         !.event = Event("put", k)]
    /\ UNCHANGED <<tables, genArgs, genLocals, rng>>

NextCounter == CounterReceive \/ CounterGet \/ CounterPut

SpecCounter == InitCounter /\ [][NextCounter]_vars

RECURSIVE SumIncrements(_)
\* the sum of the increments of the requests
SumIncrements(requests) ==
    IF requests = <<>> THEN 0
    ELSE Head(requests).incrementBy + SumIncrements(Tail(requests))

\* C30: for every interleaving of concurrent requests to
\* /api/powerball/counter/increment the counter ends at its initial value plus
\* the sum of the increments, and it never decreases.
C30_NoLostIncrement ==
    [][unit.fn = "counter" =>
          /\ currentCount(unit'.counter) >= currentCount(unit.counter)
          /\ (\A k \in DOMAIN unit'.requests : unit'.requests[k].at = "done") =>
                 currentCount(unit'.counter)
                     = currentCount(unit'.initial) + SumIncrements(unit'.requests)]_vars

====
